---------------------------- MODULE Spec2Model ----------------------------
(***************************************************************************)
(* Model of kwola's TrainingManager (components/managers/TrainingManager.py)*)
(* : the coordinator's runTraining loop, its prefetch window of batch       *)
(* futures, and the batch preparation sub-processes ("shards") with their   *)
(* command and result queues.                                               *)
(***************************************************************************)
EXTENDS Integers, Sequences, FiniteSets, TLC

\* ------------------------------------------------------------------ bounds
MaxIterations == 3      \* largest iterations_per_training_step explored
MaxFailures == 1        \* transient job failures (I/O, worker errors) per run
MaxHystIterations == 6  \* iterations driven through the hysteresis script
MaxPending == 2         \* update-loss commands waiting in the queue of a shard driven on its own
MaxTraces == 3          \* execution traces in the weight-data list of a batch draw on its own
MaxSamples == 3         \* samples assembled into one batch on its own
MaxBias == 7            \* largest one-side bias configured for a batch draw on its own

NoCache == [file |-> <<>>, written |-> {}, badTrace |-> 0 - 1, regenerated |-> FALSE,
            worker |-> <<>>]
NoDraw == [traceIds |-> <<>>, weights |-> <<>>, cacheFullState |-> TRUE, clamped |-> <<>>,
           bias |-> <<>>, traceWeights |-> <<>>, chosen |-> <<>>, raised |-> FALSE,
           done |-> FALSE]
\* No hand-off file written, no file name on the result queue.
NoFiles == [files |-> <<>>, names |-> <<>>]
NoAssembly == [samples |-> <<>>, batch |-> <<>>, done |-> FALSE]
\* No ManagedTaskSubprocess constructed.
NoTask == [alive |-> FALSE, timedOut |-> FALSE, returncodeSet |-> FALSE, polls |-> FALSE,
           process |-> "none", child |-> "none", script |-> <<>>, log |-> <<>>,
           currentLogSize |-> 0, output |-> <<>>,
           thread |-> [th \in {"timeout", "output"} |-> "none"],
           listed |-> [th \in {"timeout", "output"} |-> <<>>],
           waiter |-> "none", result |-> "none"]
NoStep == [numberOfIterationsCompleted |-> 0, totalLosses |-> 0, status |-> "none", hadNaN |-> FALSE]
NoReturn == [success |-> FALSE, hasTrainingStepId |-> FALSE, hasException |-> FALSE]
NoFuture == 0 - 1

\* The scripted ready-future counts of the hysteresis example (depth 20).
ScriptedCounts == <<18, 17, 4, 2, 10, 19>>

VARIABLES
    config,                     \* KwolaCoreConfiguration values and the testing data found on disk
    pc,                         \* the coordinator's position in runTraining
    trainingStep,               \* self.trainingStep
    disk,                       \* what the last trainingStep.saveToDisk wrote
    batchesPrepared,            \* self.batchesPrepared
    batchFutures,               \* self.batchFutures: ids of the outstanding futures, in list order
    futState,                   \* per future id: "none", "pending", "sent", "done", "failed"
    popped,                     \* the future popped by fetchBatchesForIteration and being awaited
    batchIndex,                 \* loop index of fetchBatchesForIteration
    batches,                    \* fetchBatchesForIteration's batches: the shard each one came from
    starved,                    \* self.starved
    lastStarveStateAdjustment,  \* self.lastStarveStateAdjustment
    success,                    \* runTraining's local success
    exception,                  \* runTraining's local exception (TRUE when set)
    returnData,                 \* what runTraining returned
    agentSaved,                 \* whether agent.save() ran
    shardIndex,                 \* loop index of the handshake loop and of shutdownAndJoinSubProcesses
    cmdQ,                       \* subProcessCommandQueues: the message of each command
    lossQ,                      \* the data of the update-loss commands of cmdQ, in queue order
    resQ,                       \* subProcessBatchResultQueues
    shard,                      \* per shard: the locals of prepareAndLoadBatchesSubprocess
    failures,                   \* number of transient job failures so far
    changes,                    \* history: the regime changes made, <<iteration, regime, ready>>
    onScript,                   \* history: the ready counts so far are a prefix of ScriptedCounts
    handoff,                    \* per shard: the batch hand-off files and the file names on resQ
    cache,                      \* the prepared_samples directory and the pool workers using it
    draw,                       \* a batch draw: the weight datas and the trace ids chosen
    assembly,                   \* the samples of a batch and the batch assembled from them
    task                        \* a ManagedTaskSubprocess, its threads and its process tree

\* What the computation workers and the job threads work on; the runs of
\* runTraining below leave it alone, and it is followed on its own further down.
jobVars == <<cache, draw, assembly, task>>

\* The state of runTraining and of the shards' control loops.
runVars == <<handoff, config, batches, lossQ, pc, trainingStep, disk, batchesPrepared, batchFutures,
             futState, popped, batchIndex, starved, lastStarveStateAdjustment, success,
             exception, returnData, agentSaved, shardIndex, cmdQ, resQ, shard, failures,
             changes, onScript>>

vars == <<jobVars, handoff, config, batches, lossQ, pc, trainingStep, disk, batchesPrepared, batchFutures, futState, popped,
          batchIndex, starved, lastStarveStateAdjustment, success, exception,
          returnData, agentSaved, shardIndex, cmdQ, resQ, shard, failures, changes, onScript>>

\* ------------------------------------------------------------- helpers
Min(a, b) == IF a < b THEN a ELSE b
Max(a, b) == IF a > b THEN a ELSE b

RECURSIVE SumSeq(_)
SumSeq(s) == IF s = <<>> THEN 0 ELSE Head(s) + SumSeq(Tail(s))

\* list.pop(i) leaves the list without its i-th element (1-based here).
RemoveAt(s, i) == SubSeq(s, 1, i - 1) \o SubSeq(s, i + 1, Len(s))

\* s followed by n copies of x.
RECURSIVE AppendN(_, _, _)
AppendN(s, x, n) == IF n = 0 THEN s ELSE AppendN(Append(s, x), x, n - 1)

Shards == 0 .. (config.training_batch_prep_subprocesses - 1)

\* self.totalBatchesNeeded, __init__
totalBatchesNeeded ==
    config.iterations_per_training_step * config.batches_per_iteration
        + config.training_surplus_batches

\* Future ids are the value of batchesPrepared when the future was submitted.
FutureIds == 0 .. (totalBatchesNeeded + config.training_precompute_batches_count)

\* subProcessIndex of the future submitted when batchesPrepared = id.
ShardOfFuture(id) == id % config.training_batch_prep_subprocesses

IsDone(id) == futState[id] \in {"done", "failed"}

\* ------------------------------------------------------------- TrainingStep
\* createTrainingStep: the fresh record.
NewTrainingStep ==
    [numberOfIterationsCompleted |-> 0, totalLosses |-> 0, status |-> "running", hadNaN |-> FALSE]

\* ------------------------------------------------------------- configurations
\* The fields are the configuration keys runTraining and the shards read, the
\* constructor's gpu argument (primaryGpu: "self.gpu is None or self.gpu == 0"),
\* and what the run meets: the number of completed testing steps (each with
\* one execution session), the traces per session, the weight its weight
\* files hold, how many batch jobs fail
\* for a passing reason (I/O, a worker error), and whether the sample cache
\* already holds every sample.
MakeConfig(i, b, s, d, ns, g, e, r, k, t, bias, fails, warm) ==
    [iterations_per_training_step |-> i,
     batches_per_iteration |-> b,
     training_surplus_batches |-> s,
     training_precompute_batches_count |-> d,
     training_batch_prep_subprocesses |-> ns,
     training_min_batches_between_starve_state_adjustments |-> g,
     iterations_between_db_saves |-> e,
     training_reset_workers_every_n_batches |-> r,
     training_cache_full_state_moving_average_length |-> 2,
     training_cache_full_state_min_cache_hit_rate |-> 50,
     training_number_of_recent_testing_sequences_to_use |-> 2,
     training_trace_selection_cache_not_full_state_one_side_bias |-> bias,
     training_trace_selection_min_loss_ratio_difference_for_save |-> 50,
     training_trace_selection_minimum_weight |-> 5,
     training_trace_selection_maximum_weight |-> 15,
     batch_size |-> 1,
     primaryGpu |-> TRUE,
     completedTestingSteps |-> k,
     tracesPerSession |-> t,
     loadedWeight |-> 10,
     transientFailures |-> fails,
     warmCache |-> warm]

\* ------------------------------------------------------------- shard locals
\* The locals of prepareAndLoadBatchesSubprocess as they are set before the
\* control loop starts (lines 734-750).  state is the position of the process:
\* "notstarted", "init", "loop", "draining" (after quit, while the thread
\* executor's with-block waits for the submitted jobs), "exited", "killed".
\* jobs is cacheRateFutures: one record per submitted job, in submission order;
\* list says whether the job is in currentProcessPoolFutures ("cur") or
\* lastProcessPoolFutures ("last"), and pool says which pool object the job was
\* handed at line 768: the one processPool refers to now ("current"), the one
\* lastProcessPool refers to ("old"), one that no variable refers to any more
\* ("unreferenced"), or one that has been terminated ("gone").  traceCount is
\* len(executionTraceWeightDatas); handshakes counts the messages the
\* initialization put on the result queue.  retained is the number of pools
\* that were replaced and not terminated, poolsCreated the number of pools
\* created by the control loop, modulo 2, and workers the state of the worker
\* processes of the shard's pools: "none", "alive", "terminated", or "exited"
\* when they ended by themselves after the shard process was killed.
\* A trace is named by the shard that loaded it: traceIds are the keys of
\* executionTraceWeightDataIdMap, weight is traceWeightData['weight'] of the
\* shard's trace, and traceSaveFuture is its entry of executionTraceSaveFutures:
\* "none", "running" or "ready"; savesInFlight is the number of
\* saveExecutionTraceWeightData calls for that trace handed to
\* backgroundTraceSaveProcessPool and not finished, and unsaved says that the
\* weight was changed since the last of these calls was made.  savedWeight is
\* the weight the trace's weight file holds, saveArg the weight the call in
\* flight writes, and savePickled says that the arguments of that call have
\* left the shard process, after which a change of the dictionary in the
\* shard no longer reaches the worker.
InitialShard ==
    [state |-> "notstarted",
     traceIds |-> {},
     weight |-> 0,
     traceSaveFuture |-> "none",
     savesInFlight |-> 0,
     unsaved |-> FALSE,
     savedWeight |-> 0,
     saveArg |-> 0,
     savePickled |-> FALSE,
     starved |-> FALSE,
     needToResetPool |-> FALSE,
     cacheFullState |-> TRUE,
     batchCount |-> 0,
     processPool |-> "initial",
     lastProcessPool |-> FALSE,
     traceCount |-> 0,
     jobs |-> <<>>,
     jobsDone |-> 0,
     handshakes |-> 0,
     retained |-> 0,
     poolsCreated |-> 0,
     workers |-> "none"]

\* ------------------------------------------------------------- coordinator
\* The early returns of runTraining (lines 156 and 170).
EarlyReturnData == [success |-> FALSE, hasTrainingStepId |-> FALSE, hasException |-> TRUE]

\* The return at lines 237-241.
FinalReturnData == [success |-> success, hasTrainingStepId |-> TRUE, hasException |-> exception]

\* An exception raised inside the second try block: lines 223-226, then finally.
RaiseInLoop ==
    /\ success' = FALSE
    /\ exception' = TRUE
    /\ pc' = "finally"

\* countReadyBatches
countReadyBatches == Cardinality({i \in 1 .. Len(batchFutures) : IsDone(batchFutures[i])})

\* line 325: is the regime looked at in this iteration?
StarveCheckDue ==
    trainingStep.numberOfIterationsCompleted
        > lastStarveStateAdjustment + config.training_min_batches_between_starve_state_adjustments

\* A threshold that also counts a ready count of exactly a quarter as starved.
StarvedThreshold_AtOrBelow(r) == 4 * r <= config.training_precompute_batches_count

\* line 327: ready < training_precompute_batches_count / 4 (true division).
StarvedThreshold(r) == 4 * r < config.training_precompute_batches_count

\* A broadcast that reaches the first shard only.
RegimeTargets_FirstOnly == {0}

\* lines 329 and 337: the queues a regime command is put on.
RegimeTargets == Shards

\* updateBatchPrepStarvedState with countReadyBatches() = r.
updateBatchPrepStarvedState(r) ==
    IF StarveCheckDue /\ StarvedThreshold(r) /\ ~starved
    THEN /\ cmdQ' = [s \in Shards |-> IF s \in RegimeTargets
                                      THEN Append(cmdQ[s], "starved") ELSE cmdQ[s]]
         /\ starved' = TRUE
         /\ lastStarveStateAdjustment' = trainingStep.numberOfIterationsCompleted
         /\ changes' = Append(changes,
                <<trainingStep.numberOfIterationsCompleted, "starved", r>>)
    ELSE IF StarveCheckDue /\ ~StarvedThreshold(r) /\ starved
    THEN /\ cmdQ' = [s \in Shards |-> IF s \in RegimeTargets
                                      THEN Append(cmdQ[s], "full") ELSE cmdQ[s]]
         /\ starved' = FALSE
         /\ lastStarveStateAdjustment' = trainingStep.numberOfIterationsCompleted
         /\ changes' = Append(changes,
                <<trainingStep.numberOfIterationsCompleted, "full", r>>)
    ELSE UNCHANGED <<cmdQ, starved, lastStarveStateAdjustment, changes>>

\* runTraining, lines 141-147 failing before or after createTrainingStep
\* (initializeGPU, DeepLearningAgent initialize/load): lines 167-170.
InitiationException ==
    /\ pc = "start"
    /\ \E created \in BOOLEAN :
        /\ trainingStep' = IF created THEN NewTrainingStep ELSE NoStep
        /\ disk' = IF created THEN NewTrainingStep ELSE NoStep
    /\ returnData' = EarlyReturnData
    /\ pc' = "returned"
    /\ UNCHANGED <<jobVars, handoff, config, batches, lossQ, batchesPrepared, batchFutures, futState, popped, batchIndex, starved,
                   lastStarveStateAdjustment, success, exception, agentSaved,
                   shardIndex, cmdQ, resQ, shard, failures, changes, onScript>>

\* runTraining, lines 149-156: no completed testing step.
NoTestingSteps ==
    /\ pc = "start"
    /\ config.completedTestingSteps = 0
    /\ trainingStep' = NewTrainingStep
    /\ disk' = NewTrainingStep
    /\ returnData' = EarlyReturnData
    /\ pc' = "returned"
    /\ UNCHANGED <<jobVars, handoff, config, batches, lossQ, batchesPrepared, batchFutures, futState, popped, batchIndex, starved,
                   lastStarveStateAdjustment, success, exception, agentSaved,
                   shardIndex, cmdQ, resQ, shard, failures, changes, onScript>>

\* runTraining, lines 149-162, and createSubproccesses, lines 292-308: the
\* training step is created and saved, the shard processes are started.
StartSubprocesses ==
    /\ pc = "start"
    /\ config.completedTestingSteps > 0
    /\ trainingStep' = NewTrainingStep
    /\ disk' = NewTrainingStep
    /\ shard' = [s \in Shards |-> [InitialShard EXCEPT !.state = "init"]]
    /\ shardIndex' = 0
    /\ pc' = "handshake"
    /\ UNCHANGED <<jobVars, handoff, config, batches, lossQ, batchesPrepared, batchFutures, futState, popped, batchIndex, starved,
                   lastStarveStateAdjustment, success, exception, returnData, agentSaved,
                   cmdQ, resQ, failures, changes, onScript>>

\* A handshake that takes every answer of a shard for "ready".
HandshakeAborts_Never(readyState) == FALSE

\* createSubproccesses, lines 313-314: the answer that makes it raise.
HandshakeAborts(readyState) == readyState = "error"

\* A handshake loop that waits for the first shard only.
MoreHandshakes_FirstOnly(index) == FALSE

\* createSubproccesses, line 310: the for loop has a further result queue to
\* wait on after the one at index.
MoreHandshakes(index) == index + 1 < config.training_batch_prep_subprocesses

\* createSubproccesses, lines 310-314: queue.get() on the next result queue.
Handshake ==
    /\ pc = "handshake"
    /\ resQ[shardIndex] # <<>>
    /\ resQ' = [resQ EXCEPT ![shardIndex] = Tail(@)]
    /\ IF HandshakeAborts(Head(resQ[shardIndex]))
       THEN /\ returnData' = EarlyReturnData
            /\ pc' = "returned"
            /\ UNCHANGED shardIndex
       ELSE /\ UNCHANGED returnData
            /\ IF MoreHandshakes(shardIndex)
               THEN /\ shardIndex' = shardIndex + 1
                    /\ pc' = "handshake"
               ELSE /\ shardIndex' = 0
                    /\ pc' = "queue"
    /\ UNCHANGED <<jobVars, handoff, config, batches, lossQ, trainingStep, disk, batchesPrepared, batchFutures, futState, popped,
                   batchIndex, starved, lastStarveStateAdjustment, success, exception,
                   agentSaved, cmdQ, shard, failures, changes, onScript>>

\* The futures submitted by n successive submits starting at batchesPrepared.
NewFutureIds(n) == [i \in 1 .. n |-> batchesPrepared + i - 1]

\* queueBatchesForPrecomputation
queueBatchesForPrecomputation ==
    /\ pc = "queue"
    /\ LET n == config.training_precompute_batches_count IN
        /\ batchFutures' = batchFutures \o NewFutureIds(n)
        /\ futState' = [id \in FutureIds |->
                            IF id >= batchesPrepared /\ id < batchesPrepared + n
                            THEN "pending" ELSE futState[id]]
        /\ batchesPrepared' = batchesPrepared + n
    /\ pc' = "loop"
    /\ UNCHANGED <<jobVars, handoff, config, batches, lossQ, trainingStep, disk, popped, batchIndex, starved,
                   lastStarveStateAdjustment, success, exception, returnData, agentSaved,
                   shardIndex, cmdQ, resQ, shard, failures, changes, onScript>>

\* runTraining, lines 178-179: the loop condition holds, the regime is updated.
IterationStart ==
    /\ pc = "loop"
    /\ updateBatchPrepStarvedState(countReadyBatches)
    /\ batchIndex' = 0
    /\ batches' = <<>>
    /\ pc' = "fetch"
    /\ UNCHANGED <<jobVars, handoff, config, lossQ, trainingStep, disk, batchesPrepared, batchFutures, futState, popped,
                   success, exception, returnData, agentSaved, shardIndex, resQ, shard,
                   failures, onScript>>

\* fetchBatchesForIteration, lines 347-353: is a finished future found, and
\* the index of the first one, 0 (here 1) when none is.
found == \E i \in 1 .. Len(batchFutures) : IsDone(batchFutures[i])

\* A fetch that always pops the oldest outstanding future.
chosenBatchIndex_Oldest == Min(1, Len(batchFutures))

chosenBatchIndex ==
    IF found
    THEN CHOOSE i \in 1 .. Len(batchFutures) :
            /\ IsDone(batchFutures[i])
            /\ \A j \in 1 .. (i - 1) : ~IsDone(batchFutures[j])
    ELSE 1

\* A coordinator that never submits a replacement request.
ShouldRequestAnother_Never == FALSE

\* A coordinator that stops submitting two requests before its budget.
ShouldRequestAnother_StopsEarly == batchesPrepared < totalBatchesNeeded - 1

\* line 368: is another batch requested after a fetch?
ShouldRequestAnother == batchesPrepared <= totalBatchesNeeded

\* fetchBatchesForIteration, lines 356-374, once .result() of the popped
\* future id returns or raises what prepareAndLoadBatch raised; remaining is
\* batchFutures after the pop.
TakeBatch(id, remaining) ==
    /\ popped' = NoFuture
    /\ IF futState[id] = "failed"
       THEN /\ RaiseInLoop
            /\ batchFutures' = remaining
            /\ UNCHANGED <<futState, batchesPrepared, batchIndex, batches>>
       ELSE /\ batches' = Append(batches, ShardOfFuture(id))
            /\ IF ShouldRequestAnother
               THEN /\ batchFutures' = Append(remaining, batchesPrepared)
                    /\ futState' = [futState EXCEPT ![batchesPrepared] = "pending"]
                    /\ batchesPrepared' = batchesPrepared + 1
               ELSE /\ batchFutures' = remaining
                    /\ UNCHANGED <<futState, batchesPrepared>>
            /\ batchIndex' = batchIndex + 1
            /\ pc' = IF batchIndex + 1 < config.batches_per_iteration THEN "fetch" ELSE "learn"
            /\ UNCHANGED <<success, exception>>
    /\ UNCHANGED <<jobVars, handoff, config, lossQ, trainingStep, disk, starved, lastStarveStateAdjustment,
                   returnData, agentSaved, shardIndex, cmdQ, resQ, shard, failures, changes,
                   onScript>>

\* fetchBatchesForIteration, lines 347-374, a finished future was found: it is
\* popped and its result taken without waiting.
FetchReadyBatch ==
    /\ pc = "fetch"
    /\ found
    /\ TakeBatch(batchFutures[chosenBatchIndex], RemoveAt(batchFutures, chosenBatchIndex))

\* fetchBatchesForIteration, lines 347-356, no finished future: the oldest one
\* is popped and .result() blocks; pop(0) of an empty list raises IndexError.
FetchOldestBatch ==
    /\ pc = "fetch"
    /\ ~found
    /\ IF batchFutures = <<>>
       THEN /\ RaiseInLoop
            /\ UNCHANGED <<batchFutures, popped>>
       ELSE /\ popped' = batchFutures[chosenBatchIndex]
            /\ batchFutures' = RemoveAt(batchFutures, chosenBatchIndex)
            /\ pc' = "await"
            /\ UNCHANGED <<success, exception>>
    /\ UNCHANGED <<jobVars, handoff, config, batches, lossQ, trainingStep, disk, batchesPrepared, futState, batchIndex, starved,
                   lastStarveStateAdjustment, returnData, agentSaved, shardIndex, cmdQ,
                   resQ, shard, failures, changes, onScript>>

\* fetchBatchesForIteration, lines 356-374: the awaited future finishes.
AwaitBatch ==
    /\ pc = "await"
    /\ IsDone(popped)
    /\ TakeBatch(popped, batchFutures)

\* line 200: is the training step saved after this iteration?
PeriodicSaveDue(iterations) ==
    /\ iterations % config.iterations_between_db_saves
            = config.iterations_between_db_saves - 1
    /\ config.primaryGpu

\* learnFromBatches, lines 269-272: one update-loss command per sample of every
\* batch, put on every shard's command queue.
UpdateLossCommands(q) ==
    AppendN(q, "update-loss", config.batches_per_iteration * config.batch_size)

\* The sampleRewardLoss values the learner can return for a sample.
SampleRewardLosses == {20}

\* lines 269-272: the data of these commands.  The samples of a batch are
\* traces of the shard that prepared it (lines 576-578); losses holds the
\* sampleRewardLosses of the batches, one after the other.
UpdateLossData(losses) ==
    [k \in 1 .. Len(losses) |->
        [executionTraceId |-> batches[((k - 1) \div config.batch_size) + 1],
         sampleRewardLoss |-> losses[k]]]

\* runTraining, lines 182-205, with learnFromBatches returning True: the
\* learner gave one result per batch.
LearnSucceeds ==
    /\ pc = "learn"
    /\ LET step == [trainingStep EXCEPT
                        !.totalLosses = @ + config.batches_per_iteration,
                        !.numberOfIterationsCompleted = @ + 1]
       IN /\ trainingStep' = step
          /\ disk' = IF PeriodicSaveDue(step.numberOfIterationsCompleted) THEN step ELSE disk
          /\ pc' = IF step.numberOfIterationsCompleted < config.iterations_per_training_step
                   THEN "loop" ELSE "finalize"
    /\ cmdQ' = [s \in Shards |-> UpdateLossCommands(cmdQ[s])]
    /\ \E losses \in [1 .. (Len(batches) * config.batch_size) -> SampleRewardLosses] :
            lossQ' = [s \in Shards |-> lossQ[s] \o UpdateLossData(losses)]
    /\ success' = TRUE
    /\ UNCHANGED <<jobVars, handoff, config, batches, batchesPrepared, batchFutures, futState, popped, batchIndex, starved,
                   lastStarveStateAdjustment, exception, returnData, agentSaved,
                   shardIndex, resQ, shard, failures, changes, onScript>>

\* runTraining, lines 182-184, with learnFromBatches returning False: the
\* learner returned None (lines 274-276), the loop is left by break.
LearnNaN ==
    /\ pc = "learn"
    /\ trainingStep' = [trainingStep EXCEPT !.hadNaN = TRUE]
    /\ success' = FALSE
    /\ pc' = "finalize"
    /\ UNCHANGED <<jobVars, handoff, config, batches, lossQ, disk, batchesPrepared, batchFutures, futState, popped, batchIndex,
                   starved, lastStarveStateAdjustment, exception, returnData, agentSaved,
                   shardIndex, cmdQ, resQ, shard, failures, changes, onScript>>

\* runTraining, line 182: agent.learnFromBatches raises.
LearnRaises ==
    /\ pc = "learn"
    /\ RaiseInLoop
    /\ UNCHANGED <<jobVars, handoff, config, batches, lossQ, trainingStep, disk, batchesPrepared, batchFutures, futState, popped,
                   batchIndex, starved, lastStarveStateAdjustment, returnData, agentSaved,
                   shardIndex, cmdQ, resQ, shard, failures, changes, onScript>>

\* runTraining, lines 207-216: line 209 divides by numberOfIterationsCompleted,
\* which raises ZeroDivisionError when no iteration completed.
FinishTrainingStep ==
    /\ pc = "finalize"
    /\ IF trainingStep.numberOfIterationsCompleted = 0
       THEN /\ RaiseInLoop
            /\ UNCHANGED <<trainingStep, disk>>
       ELSE /\ trainingStep' = [trainingStep EXCEPT !.status = "completed"]
            /\ disk' = trainingStep'
            /\ pc' = "executorShutdown"
            /\ UNCHANGED <<success, exception>>
    /\ UNCHANGED <<jobVars, handoff, config, batches, lossQ, batchesPrepared, batchFutures, futState, popped, batchIndex, starved,
                   lastStarveStateAdjustment, returnData, agentSaved, shardIndex, cmdQ,
                   resQ, shard, failures, changes, onScript>>

\* runTraining, line 218: threadExecutor.shutdown(wait=True) returns when every
\* submitted prepareAndLoadBatch call has finished.
ExecutorShutdown ==
    /\ pc = "executorShutdown"
    /\ \A i \in 1 .. Len(batchFutures) : IsDone(batchFutures[i])
    /\ shardIndex' = 0
    /\ pc' = "shutdown"
    /\ UNCHANGED <<jobVars, handoff, config, batches, lossQ, trainingStep, disk, batchesPrepared, batchFutures, futState, popped,
                   batchIndex, starved, lastStarveStateAdjustment, success, exception,
                   returnData, agentSaved, cmdQ, resQ, shard, failures, changes, onScript>>

\* shutdownAndJoinSubProcesses, line 382.
SendQuit ==
    /\ pc = "shutdown"
    /\ cmdQ' = [cmdQ EXCEPT ![shardIndex] = Append(@, "quit")]
    /\ pc' = "join"
    /\ UNCHANGED <<jobVars, handoff, config, batches, lossQ, trainingStep, disk, batchesPrepared, batchFutures, futState, popped,
                   batchIndex, starved, lastStarveStateAdjustment, success, exception,
                   returnData, agentSaved, shardIndex, resQ, shard, failures, changes, onScript>>

\* The for loop of shutdownAndJoinSubProcesses moves on to the next shard.
NextShardToJoin ==
    IF shardIndex + 1 < config.training_batch_prep_subprocesses
    THEN /\ shardIndex' = shardIndex + 1
         /\ pc' = "shutdown"
    ELSE /\ shardIndex' = 0
         /\ pc' = "saveAgent"

\* shutdownAndJoinSubProcesses, lines 383-384: join returns, the process exited.
JoinExited ==
    /\ pc = "join"
    /\ shard[shardIndex].state = "exited"
    /\ NextShardToJoin
    /\ UNCHANGED <<jobVars, handoff, config, batches, lossQ, trainingStep, disk, batchesPrepared, batchFutures, futState, popped,
                   batchIndex, starved, lastStarveStateAdjustment, success, exception,
                   returnData, agentSaved, cmdQ, resQ, shard, failures, changes, onScript>>

\* Process.kill() sends SIGKILL to the shard process alone.  The worker
\* processes of its pools are not signalled: they are alive when kill returns,
\* unless they were idle and ended by themselves on the closed task pipe.
WorkersAfterKill(workers) == IF workers = "alive" THEN {"alive", "exited"} ELSE {workers}

\* shutdownAndJoinSubProcesses, lines 383-389: the join timed out and the shard
\* process is killed, and its job threads and its locals with it.
JoinTimeoutKill ==
    /\ pc = "join"
    /\ shard[shardIndex].state # "exited"
    /\ \E w \in WorkersAfterKill(shard[shardIndex].workers) :
        shard' = [shard EXCEPT ![shardIndex] =
                    [@ EXCEPT !.state = "killed", !.jobs = <<>>, !.lastProcessPool = FALSE,
                              !.needToResetPool = FALSE, !.retained = 0, !.workers = w]]
    /\ NextShardToJoin
    /\ UNCHANGED <<jobVars, handoff, config, batches, lossQ, trainingStep, disk, batchesPrepared, batchFutures, futState, popped,
                   batchIndex, starved, lastStarveStateAdjustment, success, exception,
                   returnData, agentSaved, cmdQ, resQ, failures, changes, onScript>>

\* saveAgent
saveAgent ==
    /\ pc = "saveAgent"
    /\ agentSaved' = (~trainingStep.hadNaN /\ config.primaryGpu)
    /\ pc' = "finally"
    /\ UNCHANGED <<jobVars, handoff, config, batches, lossQ, trainingStep, disk, batchesPrepared, batchFutures, futState, popped,
                   batchIndex, starved, lastStarveStateAdjustment, success, exception,
                   returnData, shardIndex, cmdQ, resQ, shard, failures, changes, onScript>>

\* runTraining, lines 227-241: the finally block and the return.
ReturnFromTraining ==
    /\ pc = "finally"
    /\ returnData' = FinalReturnData
    /\ pc' = "returned"
    /\ UNCHANGED <<jobVars, handoff, config, batches, lossQ, trainingStep, disk, batchesPrepared, batchFutures, futState, popped,
                   batchIndex, starved, lastStarveStateAdjustment, success, exception,
                   agentSaved, shardIndex, cmdQ, resQ, shard, failures, changes, onScript>>

\* ------------------------------------------------------------- prepareAndLoadBatch
\* prepareAndLoadBatch, line 839: the executor thread of a future puts its
\* batch command.
RequestBatch(id) ==
    /\ futState[id] = "pending"
    /\ futState' = [futState EXCEPT ![id] = "sent"]
    /\ cmdQ' = [cmdQ EXCEPT ![ShardOfFuture(id)] = Append(@, "batch")]
    /\ UNCHANGED <<jobVars, handoff, config, batches, lossQ, pc, trainingStep, disk, batchesPrepared, batchFutures, popped,
                   batchIndex, starved, lastStarveStateAdjustment, success, exception,
                   returnData, agentSaved, shardIndex, resQ, shard, failures, changes, onScript>>

\* prepareAndLoadBatch, lines 842-843: open() and pickle.load() of the named
\* file; open() raises FileNotFoundError when the file is gone.
OpenAndRead(file) ==
    IF file.state = "written"
    THEN [file EXCEPT !.reads = @ + 1]
    ELSE [file EXCEPT !.missed = TRUE]

\* The file is left where it is.
Unlinked_Kept(file) == file

\* prepareAndLoadBatch, line 844: os.unlink(batchFileName).
Unlinked(file) == [file EXCEPT !.state = "deleted"]

\* prepareAndLoadBatch, lines 841-846: the thread takes the next message of the
\* shard's result queue and opens it as a file, reads the batch and deletes
\* the file; a message that is no batch file name, or that names a file that
\* is gone, makes open() raise and the future fail.
ReceiveBatch(id) ==
    /\ futState[id] = "sent"
    /\ resQ[ShardOfFuture(id)] # <<>>
    /\ resQ' = [resQ EXCEPT ![ShardOfFuture(id)] = Tail(@)]
    /\ IF Head(resQ[ShardOfFuture(id)]) = "batch"
       THEN LET batchFileName == Head(handoff[ShardOfFuture(id)].names)
                file == handoff[ShardOfFuture(id)].files[batchFileName]
            IN  /\ futState' = [futState EXCEPT ![id] =
                                    IF file.state = "written" THEN "done" ELSE "failed"]
                /\ handoff' = [handoff EXCEPT ![ShardOfFuture(id)] =
                                [files |-> [@.files EXCEPT ![batchFileName] =
                                                IF file.state = "written"
                                                THEN Unlinked(OpenAndRead(file))
                                                ELSE OpenAndRead(file)],
                                 names |-> Tail(@.names)]]
       ELSE /\ futState' = [futState EXCEPT ![id] = "failed"]
            /\ UNCHANGED handoff
    /\ UNCHANGED <<jobVars, config, batches, lossQ, pc, trainingStep, disk, batchesPrepared, batchFutures, popped,
                   batchIndex, starved, lastStarveStateAdjustment, success, exception,
                   returnData, agentSaved, shardIndex, cmdQ, shard, failures, changes, onScript>>

\* ------------------------------------------------------------- shard initialization
\* prepareAndLoadBatchesSubprocess, lines 675-676: the completed testing steps,
\* most recent first, cut to the configured number.
EligibleTestingSteps ==
    Min(config.completedTestingSteps, config.training_number_of_recent_testing_sequences_to_use)

\* prepareAndLoadBatchesSubprocess, lines 689-716: shard s loads the sessions of
\* the testing steps whose index is s modulo the number of shards, and a weight
\* data for every trace of a session but the last.
TraceCount(s) ==
    Cardinality({i \in 0 .. (EligibleTestingSteps - 1) :
                    i % config.training_batch_prep_subprocesses = s})
        * (config.tracesPerSession - 1)

\* The handshake message of an initialization that ran to its end: lines
\* 678-681 (no testing step), 730-732 (no weight data), 748 (ready).
HandshakeMessage(s) ==
    IF EligibleTestingSteps = 0 \/ TraceCount(s) = 0 THEN "error" ELSE "ready"

\* prepareAndLoadBatchesSubprocess, lines 668-748, no exception while loading.
ShardInitialize(s) ==
    /\ shard[s].state = "init"
    /\ resQ' = [resQ EXCEPT ![s] = Append(@, HandshakeMessage(s))]
    /\ shard' = [shard EXCEPT ![s] =
                    [@ EXCEPT !.state = IF HandshakeMessage(s) = "ready" THEN "loop" ELSE "exited",
                              !.traceCount = TraceCount(s),
                              !.traceIds = IF TraceCount(s) > 0 THEN {s} ELSE {},
                              !.weight = config.loadedWeight,
                              !.savedWeight = config.loadedWeight,
                              !.handshakes = @ + 1,
                              !.workers = IF HandshakeMessage(s) = "ready"
                                          THEN "alive" ELSE "none"]]
    /\ UNCHANGED <<jobVars, handoff, config, batches, lossQ, pc, trainingStep, disk, batchesPrepared, batchFutures, futState,
                   popped, batchIndex, starved, lastStarveStateAdjustment, success,
                   exception, returnData, agentSaved, shardIndex, cmdQ, failures, changes,
                   onScript>>

\* What a shard whose loading raised puts on its result queue: the except
\* clause at lines 834-835 only logs.
MessagesOnInitException == <<>>

\* prepareAndLoadBatchesSubprocess, lines 686-727 raising (a session that is
\* not found, a weight data that does not load within its timeout), caught at
\* lines 834-835: the process ends.
ShardInitRaises(s) ==
    /\ shard[s].state = "init"
    /\ EligibleTestingSteps > 0
    /\ resQ' = [resQ EXCEPT ![s] = @ \o MessagesOnInitException]
    /\ shard' = [shard EXCEPT ![s] =
                    [@ EXCEPT !.state = "exited",
                              !.handshakes = @ + Len(MessagesOnInitException)]]
    /\ UNCHANGED <<jobVars, handoff, config, batches, lossQ, pc, trainingStep, disk, batchesPrepared, batchFutures, futState,
                   popped, batchIndex, starved, lastStarveStateAdjustment, success,
                   exception, returnData, agentSaved, shardIndex, cmdQ, failures, changes,
                   onScript>>

\* ------------------------------------------------------------- shard control loop
\* A job as submitted at lines 768-771 with the current cacheFullState.
NewJob(sh) ==
    [done |-> FALSE, reported |-> FALSE, rate |-> 0, cacheFullState |-> sh.cacheFullState,
     list |-> "cur", pool |-> "current"]

\* A periodic reset that is due at every batch command.
PeriodicResetDue_EveryBatch(sh) == TRUE

\* line 765: the periodic reset of the worker pool.
PeriodicResetDue(sh) ==
    sh.batchCount % config.training_reset_workers_every_n_batches
        = config.training_reset_workers_every_n_batches - 1

\* The control loop's handling of one message other than quit, lines 756-787.
\* batchCount is only read modulo training_reset_workers_every_n_batches and is
\* kept modulo it.  update-loss changes the weight data only.
HandleMessage(sh, msg) ==
    CASE msg = "starved" -> [sh EXCEPT !.starved = TRUE, !.needToResetPool = TRUE]
      [] msg = "full" -> [sh EXCEPT !.starved = FALSE, !.needToResetPool = TRUE]
      [] msg = "batch" ->
            [sh EXCEPT !.needToResetPool = @ \/ PeriodicResetDue(sh),
                       !.jobs = Append(@, NewJob(sh)),
                       !.batchCount = (@ + 1) % config.training_reset_workers_every_n_batches]
      [] OTHER -> sh

\* A shard that takes every trace id for one of its own.
OwnsTrace_Any(sh, executionTraceId) == TRUE

\* line 777: executionTraceId in executionTraceWeightDataIdMap.
OwnsTrace(sh, executionTraceId) == executionTraceId \in sh.traceIds

\* A comparison that also takes a difference ratio equal to the threshold.
DifferenceExceeds_AtLeast(weight, sampleRewardLoss) ==
    LET difference == IF weight > sampleRewardLoss THEN weight - sampleRewardLoss
                      ELSE sampleRewardLoss - weight
    IN difference * 100
            >= config.training_trace_selection_min_loss_ratio_difference_for_save * weight

\* line 782-783: abs(weight - sampleRewardLoss) / (weight + 1e-6) exceeds the
\* configured ratio, here in percent.
DifferenceExceeds(weight, sampleRewardLoss) ==
    LET difference == IF weight > sampleRewardLoss THEN weight - sampleRewardLoss
                      ELSE sampleRewardLoss - weight
    IN IF weight = 0 THEN difference > 0
       ELSE difference * 100
                > config.training_trace_selection_min_loss_ratio_difference_for_save * weight

\* A shard that hands every changed weight to the background pool.
MayScheduleSave_Always(sh) == TRUE

\* line 785: the trace has no save future, or its save future is ready().
MayScheduleSave(sh) == sh.traceSaveFuture # "running"

\* lines 774-787: update-loss with its data.  apply_async (line 786) puts the
\* dictionary on the task queue of the pool, whose handler thread pickles it
\* later: pickled says whether that has happened when line 784 changes the
\* dictionary again.
UpdateLoss(sh, data, pickled) ==
    IF OwnsTrace(sh, data.executionTraceId)
            /\ DifferenceExceeds(sh.weight, data.sampleRewardLoss)
    THEN IF MayScheduleSave(sh)
         THEN [sh EXCEPT !.weight = data.sampleRewardLoss,
                         !.traceSaveFuture = "running",
                         !.savesInFlight = @ + 1,
                         !.unsaved = FALSE,
                         !.saveArg = data.sampleRewardLoss,
                         !.savePickled = FALSE]
         ELSE [sh EXCEPT !.weight = data.sampleRewardLoss,
                         !.unsaved = TRUE,
                         !.saveArg = IF sh.savePickled \/ pickled THEN @
                                     ELSE data.sampleRewardLoss,
                         !.savePickled = sh.savePickled \/ pickled]
    ELSE sh

\* line 792: cacheRateFutures[-training_cache_full_state_moving_average_length:].
RecentJobs(sh) ==
    SubSeq(sh.jobs,
           Max(1, Len(sh.jobs) - config.training_cache_full_state_moving_average_length + 1),
           Len(sh.jobs))

\* A resize that reads the result of every job of the window.
ReadAtResize_Every(job) == TRUE

\* line 792: "if future.done()", the jobs whose result is read.
ReadAtResize(job) == job.done

\* line 792: the results of the finished jobs among the last
\* training_cache_full_state_moving_average_length of cacheRateFutures.
cacheRates(sh) ==
    LET finished == SelectSeq(RecentJobs(sh), ReadAtResize)
    IN [i \in 1 .. Len(finished) |-> finished[i].rate]

\* line 792: future.result() returns at once for a job that is done and waits
\* for one that is not: does the resize of this shard wait for a job?
ResizeWaits(sh) ==
    \E i \in 1 .. Len(RecentJobs(sh)) :
        ReadAtResize(RecentJobs(sh)[i]) /\ ~RecentJobs(sh)[i].done

\* A comparison that takes the mean of no value for a full cache.
MeanExceedsThreshold_EmptyIsFull(rates) ==
    \/ rates = <<>>
    \/ SumSeq(rates) > config.training_cache_full_state_min_cache_hit_rate * Len(rates)

\* line 795: numpy.mean(cacheRates) > threshold, rates and threshold in percent;
\* the mean of no value is nan, which is greater than nothing.
MeanExceedsThreshold(rates) ==
    /\ rates # <<>>
    /\ SumSeq(rates) > config.training_cache_full_state_min_cache_hit_rate * Len(rates)

\* A resize that leaves the jobs of the replaced pool in
\* currentProcessPoolFutures.
ListAfterReset_Kept(list) == list

\* lines 797-798 and 808-809: lastProcessPoolFutures becomes the list of the
\* jobs of currentProcessPoolFutures, which is emptied.
ListAfterReset(list) == IF list = "cur" THEN "last" ELSE "none"

\* lines 796 and 807, lastProcessPool = processPool, and lines 802 and 813,
\* processPool = Pool(...): what the pool a job was handed has become.
PoolAfterReset(pool) ==
    CASE pool = "current" -> "old"
      [] pool = "old" -> "unreferenced"
      [] OTHER -> pool

\* lines 789-815: the pool is replaced; the jobs of the current pool become
\* the jobs of the last pool.
ResetPool(sh) ==
    LET cacheFull == MeanExceedsThreshold(cacheRates(sh)) /\ ~sh.starved
    IN [sh EXCEPT !.needToResetPool = FALSE,
                  !.lastProcessPool = TRUE,
                  !.jobs = [i \in 1 .. Len(sh.jobs) |->
                                [sh.jobs[i] EXCEPT !.list = ListAfterReset(@),
                                                   !.pool = PoolAfterReset(@)]],
                  !.processPool = IF cacheFull THEN "cacheFull" ELSE "max",
                  !.cacheFullState = cacheFull,
                  !.retained = @ + 1,
                  !.poolsCreated = (@ + 1) % 2]

\* A retirement test that does not look at the jobs of the last pool.
LastPoolDrained_Always(sh) == TRUE

\* lines 818-822: is every future of lastProcessPoolFutures done?
LastPoolDrained(sh) ==
    \A i \in 1 .. Len(sh.jobs) : sh.jobs[i].list = "last" => sh.jobs[i].done

\* lines 817-826: the last pool is terminated once all its jobs are done.
RetireLastPool(sh) ==
    IF sh.lastProcessPool /\ LastPoolDrained(sh)
    THEN [sh EXCEPT !.lastProcessPool = FALSE,
                    !.retained = @ - 1,
                    !.jobs = [i \in 1 .. Len(sh.jobs) |->
                                [sh.jobs[i] EXCEPT
                                    !.list = IF @ = "last" THEN "none" ELSE @,
                                    !.pool = IF @ = "old" THEN "gone" ELSE @]]]
    ELSE sh

\* cacheRateFutures grows without bound; a finished job older than the moving
\* average window is read by nothing any more and is dropped from the model's
\* list (the window itself and every unfinished job are kept, in order).
RECURSIVE KeepLive(_, _)
KeepLive(jobs, window) ==
    IF Len(jobs) <= window THEN jobs
    ELSE IF Head(jobs).done THEN KeepLive(Tail(jobs), window)
    ELSE <<Head(jobs)>> \o KeepLive(Tail(jobs), window)

Compact(sh) ==
    [sh EXCEPT !.jobs = KeepLive(@, config.training_cache_full_state_moving_average_length)]

\* A resize that does not wait for the last pool to be retired.
ResetAllowed_Always(sh) == TRUE

\* line 789: "lastProcessPool is None".
ResetAllowed(sh) == ~sh.lastProcessPool

\* One pass of the control loop after a message other than quit: lines 756-826.
AfterMessage(sh, msg) ==
    LET handled == HandleMessage(sh, msg)
        reset == IF handled.needToResetPool /\ ResetAllowed(handled)
                 THEN ResetPool(handled) ELSE handled
    IN Compact(RetireLastPool(reset))

\* Lines 756-826 for msg have to wait for a job of the shard: only the read
\* of line 792 can; lines 768, 785, 802 and 813 hand work over and return, and
\* lines 781 and 820 only test ready() and done().
PassWaits(sh, msg) ==
    LET handled == HandleMessage(sh, msg)
    IN handled.needToResetPool /\ ResetAllowed(handled) /\ ResizeWaits(handled)

\* A control loop that takes the newest command of its queue.
NextCommandIndex_Newest(q) == Len(q)

\* line 753: subProcessCommandQueue.get() takes the oldest command of the queue.
NextCommandIndex(q) == 1

\* prepareAndLoadBatchesSubprocess, lines 752-826: the control loop takes the
\* next command; quit leaves the loop, and the with-block of the thread
\* executor then waits for the submitted jobs.
ProcessCommand(s) ==
    /\ shard[s].state = "loop"
    /\ cmdQ[s] # <<>>
    /\ cmdQ' = [cmdQ EXCEPT ![s] = RemoveAt(@, NextCommandIndex(@))]
    /\ LET msg == cmdQ[s][NextCommandIndex(cmdQ[s])]
       IN msg = "quit" \/ ~PassWaits(shard[s], msg)
    /\ LET msg == cmdQ[s][NextCommandIndex(cmdQ[s])]
       IN IF msg = "update-loss"
          THEN /\ \E pickled \in BOOLEAN :
                    shard' = [shard EXCEPT ![s] =
                                AfterMessage(UpdateLoss(@, Head(lossQ[s]), pickled), msg)]
               /\ lossQ' = [lossQ EXCEPT ![s] = Tail(@)]
          ELSE /\ shard' = [shard EXCEPT ![s] =
                                IF msg = "quit" THEN [@ EXCEPT !.state = "draining"]
                                ELSE AfterMessage(@, msg)]
               /\ UNCHANGED lossQ
    /\ UNCHANGED <<jobVars, handoff, config, batches, pc, trainingStep, disk, batchesPrepared, batchFutures, futState,
                   popped, batchIndex, starved, lastStarveStateAdjustment, success,
                   exception, returnData, agentSaved, shardIndex, resQ, failures, changes,
                   onScript>>

\* A thread executor that is left without waiting for its jobs.
JobsFinished_NotAwaited(sh) == TRUE

\* line 751: leaving the with-block of the thread executor is
\* shutdown(wait=True), which returns when every submitted job has returned.
JobsFinished(sh) == \A i \in 1 .. Len(sh.jobs) : sh.jobs[i].done

\* saveExecutionTraceWeightData, lines 403-412, run by a worker of
\* backgroundTraceSaveProcessPool, comes to its end; the pool takes its tasks
\* in the order they were handed to it, so the future the shard holds, the
\* one of the last call, is ready when no call is left.
TraceSaveCompletes(s) ==
    /\ shard[s].state \in {"loop", "draining"}
    /\ shard[s].savesInFlight > 0
    /\ shard' = [shard EXCEPT ![s] =
                    [@ EXCEPT !.savesInFlight = @ - 1,
                              !.savedWeight = shard[s].saveArg,
                              !.savePickled = FALSE,
                              !.traceSaveFuture = IF shard[s].savesInFlight = 1
                                                  THEN "ready" ELSE @]]
    /\ UNCHANGED <<jobVars, handoff, config, batches, lossQ, pc, trainingStep, disk, batchesPrepared, batchFutures,
                   futState, popped, batchIndex, starved, lastStarveStateAdjustment, success,
                   exception, returnData, agentSaved, shardIndex, cmdQ, resQ, failures,
                   changes, onScript>>

\* lines 828-829: close() and join() of backgroundTraceSaveProcessPool return
\* when the saves handed to it have been written.
SavesFinished(sh) == sh.savesInFlight = 0

\* lines 828-832 after the with-block: every job has finished, the pools are
\* terminated and the process ends.
ShardExit(s) ==
    /\ shard[s].state = "draining"
    /\ JobsFinished(shard[s])
    /\ SavesFinished(shard[s])
    /\ shard' = [shard EXCEPT ![s] =
                    [@ EXCEPT !.state = "exited", !.lastProcessPool = FALSE, !.jobs = <<>>,
                              !.retained = IF shard[s].lastProcessPool THEN @ - 1 ELSE @,
                              !.workers = "terminated"]]
    /\ UNCHANGED <<jobVars, handoff, config, batches, lossQ, pc, trainingStep, disk, batchesPrepared, batchFutures, futState,
                   popped, batchIndex, starved, lastStarveStateAdjustment, success,
                   exception, returnData, agentSaved, shardIndex, cmdQ, resQ, failures,
                   changes, onScript>>

\* ------------------------------------------------------------- batch jobs
\* line 573: len(numpy.arange(0, bias, n)) for n traces.
BiasLength(bias, n) == IF bias <= 0 THEN 0 ELSE (bias + n - 1) \div n

\* line 573: traceWeights + arange broadcasts to one weight per trace only when
\* the arange has one element or one per trace; otherwise the addition or the
\* draw at line 578 raises ValueError.
BiasBroadcasts(bias, n) == BiasLength(bias, n) = 1 \/ BiasLength(bias, n) = n

\* prepareAndLoadSingleBatchForSubprocess raises on every run of this job.
JobMustFail(sh, job) ==
    /\ ~job.cacheFullState
    /\ ~BiasBroadcasts(config.training_trace_selection_cache_not_full_state_one_side_bias,
                       sh.traceCount)

\* The cache hit rates a finished batch of batch_size = 1 sample reports, in
\* percent (lines 587-591, 625).
HitRates == IF config.warmCache THEN {100} ELSE {0, 100}

\* The job has put its message on a queue (line 630 or 636) and is about to
\* return rate; its future is not done before the call has returned.
ReportJob(sh, j, rate) ==
    [sh EXCEPT !.jobs[j] = [@ EXCEPT !.reported = TRUE, !.rate = rate]]

\* The model follows one job of a shard at a time through the window between
\* its report and its return: a job reports when no other job of its shard is
\* in that window.
NoJobReturning(sh) ==
    \A i \in 1 .. Len(sh.jobs) : sh.jobs[i].reported => sh.jobs[i].done

\* lines 632 and 637: the call returns and its future is done.
FinishJob(sh, j) ==
    Compact([sh EXCEPT !.jobs[j] = [@ EXCEPT !.done = TRUE],
                       !.jobsDone = Min(@ + 1,
                                        config.training_cache_full_state_moving_average_length)])

\* lines 627-629: a fresh temporary file holding the batch and its hit rate.
NewFile == [state |-> "written", reads |-> 0, missed |-> FALSE]

\* prepareAndLoadSingleBatchForSubprocess, lines 557-633: the batch is written
\* and its file name put on the result queue.
JobSucceeds(s, j) ==
    /\ shard[s].state \in {"loop", "draining"}
    /\ j \in 1 .. Len(shard[s].jobs)
    /\ ~shard[s].jobs[j].reported
    /\ NoJobReturning(shard[s])
    /\ ~JobMustFail(shard[s], shard[s].jobs[j])
    /\ \E rate \in HitRates : shard' = [shard EXCEPT ![s] = ReportJob(@, j, rate)]
    /\ resQ' = [resQ EXCEPT ![s] = Append(@, "batch")]
    /\ handoff' = [handoff EXCEPT ![s] =
                    [files |-> Append(@.files, NewFile),
                     names |-> Append(@.names, Len(@.files) + 1)]]
    /\ UNCHANGED <<jobVars, config, batches, lossQ, pc, trainingStep, disk, batchesPrepared, batchFutures, futState,
                   popped, batchIndex, starved, lastStarveStateAdjustment, success,
                   exception, returnData, agentSaved, shardIndex, cmdQ, failures, changes,
                   onScript>>

\* A failing job that swallows its exception without requeueing.
RetryCommands_Dropped == <<>>

\* line 636: what the except clause puts on the shard's own command queue.
RetryCommands == <<"batch">>

\* prepareAndLoadSingleBatchForSubprocess, lines 634-637: any exception is
\* logged, a retry is queued and 1.0 is returned as the job's cache hit rate.
JobFails(s, j) ==
    /\ shard[s].state \in {"loop", "draining"}
    /\ j \in 1 .. Len(shard[s].jobs)
    /\ ~shard[s].jobs[j].reported
    /\ NoJobReturning(shard[s])
    /\ IF JobMustFail(shard[s], shard[s].jobs[j])
       THEN UNCHANGED failures
       ELSE /\ failures < config.transientFailures
            /\ failures' = failures + 1
    /\ shard' = [shard EXCEPT ![s] = ReportJob(@, j, 100)]
    /\ cmdQ' = [cmdQ EXCEPT ![s] = @ \o RetryCommands]
    /\ UNCHANGED <<jobVars, handoff, config, batches, lossQ, pc, trainingStep, disk, batchesPrepared, batchFutures, futState,
                   popped, batchIndex, starved, lastStarveStateAdjustment, success,
                   exception, returnData, agentSaved, shardIndex, resQ, changes, onScript>>

\* prepareAndLoadSingleBatchForSubprocess, lines 632 and 637: the call returns
\* its cache hit rate to the thread executor, which marks the future done.
JobReturns(s, j) ==
    /\ shard[s].state \in {"loop", "draining"}
    /\ j \in 1 .. Len(shard[s].jobs)
    /\ shard[s].jobs[j].reported
    /\ ~shard[s].jobs[j].done
    /\ shard' = [shard EXCEPT ![s] = FinishJob(@, j)]
    /\ UNCHANGED <<jobVars, handoff, config, batches, lossQ, pc, trainingStep, disk, batchesPrepared, batchFutures, futState,
                   popped, batchIndex, starved, lastStarveStateAdjustment, success,
                   exception, returnData, agentSaved, shardIndex, cmdQ, resQ, failures,
                   changes, onScript>>

\* ------------------------------------------------------------- specification
\* The state in which a run with configuration c is at position p with
\* training step record step and every shard's locals are sh.
InitRun(c, p, step, sh) ==
    /\ config = c
    /\ pc = p
    /\ trainingStep = step
    /\ disk = step
    /\ batchesPrepared = 0
    /\ batchFutures = <<>>
    /\ futState = [id \in 0 .. (c.iterations_per_training_step * c.batches_per_iteration
                                  + c.training_surplus_batches
                                  + c.training_precompute_batches_count) |-> "none"]
    /\ popped = NoFuture
    /\ batchIndex = 0
    /\ batches = <<>>
    /\ lossQ = [s \in 0 .. (c.training_batch_prep_subprocesses - 1) |-> <<>>]
    /\ handoff = [s \in 0 .. (c.training_batch_prep_subprocesses - 1) |-> NoFiles]
    /\ starved = FALSE
    /\ lastStarveStateAdjustment = 0
    /\ success = TRUE
    /\ exception = FALSE
    /\ returnData = NoReturn
    /\ agentSaved = FALSE
    /\ shardIndex = 0
    /\ cmdQ = [s \in 0 .. (c.training_batch_prep_subprocesses - 1) |-> <<>>]
    /\ resQ = [s \in 0 .. (c.training_batch_prep_subprocesses - 1) |-> <<>>]
    /\ shard = [s \in 0 .. (c.training_batch_prep_subprocesses - 1) |-> sh]
    /\ failures = 0
    /\ changes = <<>>
    /\ onScript = (p = "hyst")

\* The same with nothing for the computation workers to work on.
InitShards(c, p, step, sh) ==
    /\ InitRun(c, p, step, sh)
    /\ cache = NoCache
    /\ draw = NoDraw
    /\ assembly = NoAssembly
    /\ task = NoTask

\* The same with no shard process started.
InitState(c, p, step) == InitShards(c, p, step, InitialShard)

\* The state before runTraining is called.
InitWith(c) == InitState(c, "start", NoStep)

\* MakeConfig(iterations, batches per iteration, surplus, prefetch depth,
\*            shards, starve gap, db save period, pool reset period,
\*            testing steps, traces per session, bias, failures, warm cache)

\* One shard, prefetch depth 1: iterations, batches per iteration and surplus
\* vary; the step is saved after every iteration without surplus batches and
\* after every third with one.
DepthOneConfigs ==
    {MakeConfig(i, b, s, 1, 1, 0, 1 + 2 * s, 2, 1, 3, 1, 0, TRUE) :
        i \in 1 .. MaxIterations, b \in {1, 2}, s \in {0, 1}}

\* One shard, prefetch depth 2, without and with surplus batches.
WindowConfigs ==
    {MakeConfig(2, 1, 0, 2, 1, 0, 3, 2, 1, 3, 1, 0, TRUE),
     MakeConfig(2, 1, 2, 2, 1, 0, 1, 2, 1, 3, 1, 0, TRUE)}

\* Two shards: with a gap of one batch between two changes of the regime, and
\* with no gap and the three iterations it takes to change it back and forth.
RegimeConfigs ==
    {MakeConfig(MaxIterations, 1, 0, 1, 2, 1, 1, 2, 2, 3, 1, 0, TRUE),
     MakeConfig(3, 1, 0, 1, 2, 0, 1, 2, 2, 3, 1, 0, TRUE)}

\* Batch jobs that fail for a passing reason.
FailureConfigs ==
    {MakeConfig(2, 1, 0, 2, 1, 0, 3, 2, 1, 3, 1, MaxFailures, TRUE)}

\* A one-side bias that numpy cannot broadcast over the shard's two traces.
BiasConfigs ==
    {MakeConfig(2, 1, 0, 2, 1, 0, 1, 2, 1, 3, 5, 0, FALSE)}

\* Data that leaves the run or a shard without anything to train on: no
\* completed testing step, fewer testing steps than shards, one-trace sessions.
NoDataConfigs ==
    {MakeConfig(1, 1, 0, 1, 1, 0, 1, 2, 0, 3, 1, 0, TRUE),
     MakeConfig(1, 1, 0, 1, 2, 0, 1, 2, 1, 3, 1, 0, TRUE),
     MakeConfig(1, 1, 0, 1, 1, 0, 1, 2, 1, 1, 1, 0, TRUE)}

Configurations ==
    DepthOneConfigs \cup WindowConfigs \cup RegimeConfigs \cup FailureConfigs
        \cup BiasConfigs \cup NoDataConfigs

Init == \E c \in Configurations : InitWith(c)

Next ==
    \/ InitiationException
    \/ NoTestingSteps
    \/ StartSubprocesses
    \/ Handshake
    \/ queueBatchesForPrecomputation
    \/ IterationStart
    \/ FetchReadyBatch
    \/ FetchOldestBatch
    \/ AwaitBatch
    \/ LearnSucceeds
    \/ LearnNaN
    \/ LearnRaises
    \/ FinishTrainingStep
    \/ ExecutorShutdown
    \/ SendQuit
    \/ JoinExited
    \/ JoinTimeoutKill
    \/ saveAgent
    \/ ReturnFromTraining
    \/ \E id \in FutureIds : RequestBatch(id)
    \/ \E id \in FutureIds : ReceiveBatch(id)
    \/ \E s \in Shards : ShardInitialize(s)
    \/ \E s \in Shards : ShardInitRaises(s)
    \/ \E s \in Shards : ProcessCommand(s)
    \/ \E s \in Shards : ShardExit(s)
    \/ \E s \in Shards : TraceSaveCompletes(s)
    \/ \E s \in Shards : \E j \in 1 .. Len(shard[s].jobs) : JobSucceeds(s, j)
    \/ \E s \in Shards : \E j \in 1 .. Len(shard[s].jobs) : JobFails(s, j)
    \/ \E s \in Shards : \E j \in 1 .. Len(shard[s].jobs) : JobReturns(s, j)

Spec == Init /\ [][Next]_vars

\* ------------------------------------------- the regime decision on its own
\* updateBatchPrepStarvedState driven once per iteration, as runTraining does
\* at line 180, with the ready-future count of that iteration as an input:
\* the counts of the scripted sequence and the values around depth / 4.
ReadyCounts == {2, 4, 5, 10, 17, 18, 19}

HystConfigs ==
    {MakeConfig(MaxHystIterations, 1, 0, 20, 1, g, 1, 2, 1, 3, 1, 0, TRUE) : g \in {0, 1, 2}}

InitHyst == \E c \in HystConfigs : InitState(c, "hyst", NewTrainingStep)

\* Is the count r the next one of the scripted sequence?
NextOnScript(r) ==
    /\ trainingStep.numberOfIterationsCompleted < Len(ScriptedCounts)
    /\ r = ScriptedCounts[trainingStep.numberOfIterationsCompleted + 1]

\* One pass of the while loop of runTraining (lines 178-205) reduced to the
\* regime decision and the iteration counter.
HystIteration ==
    /\ pc = "hyst"
    /\ trainingStep.numberOfIterationsCompleted < config.iterations_per_training_step
    /\ \E r \in ReadyCounts :
        /\ updateBatchPrepStarvedState(r)
        /\ onScript' = (onScript /\ NextOnScript(r))
    /\ trainingStep' = [trainingStep EXCEPT !.numberOfIterationsCompleted = @ + 1]
    /\ UNCHANGED <<jobVars, handoff, config, batches, lossQ, pc, disk, batchesPrepared, batchFutures, futState, popped,
                   batchIndex, success, exception, returnData, agentSaved, shardIndex,
                   resQ, shard, failures>>

NextHyst == HystIteration

SpecHyst == InitHyst /\ [][NextHyst]_vars

\* ------------------------------------------- the weight updates on their own
\* One shard in its control loop, sent update-loss commands for its own trace
\* (id 0) and for a trace of another shard (id 1) with any of these losses,
\* for several weights found in the weight file.
LossesSent == {0, 10, 20}

WeightConfigs ==
    {[MakeConfig(1, 1, 0, 1, 1, 0, 1, 2, 1, 3, 1, 0, TRUE) EXCEPT !.loadedWeight = w] :
        w \in {0, 10, 20}}

\* The locals of a shard whose initialization has sent "ready".
LoadedShard(c) ==
    [InitialShard EXCEPT !.state = "loop", !.traceIds = {0}, !.traceCount = 2,
                         !.weight = c.loadedWeight, !.savedWeight = c.loadedWeight,
                         !.handshakes = 1, !.workers = "alive"]

InitWeights == \E c \in WeightConfigs : InitShards(c, "weights", NewTrainingStep, LoadedShard(c))

\* learnFromBatches, lines 269-272, for one sample: an update-loss command is
\* put on the shard's queue.
SendUpdateLoss ==
    /\ pc = "weights"
    /\ shard[0].state = "loop"
    /\ Len(cmdQ[0]) < MaxPending
    /\ \A i \in 1 .. Len(cmdQ[0]) : cmdQ[0][i] # "quit"
    /\ \E id \in {0, 1}, loss \in LossesSent :
        /\ cmdQ' = [cmdQ EXCEPT ![0] = Append(@, "update-loss")]
        /\ lossQ' = [lossQ EXCEPT ![0] =
                        Append(@, [executionTraceId |-> id, sampleRewardLoss |-> loss])]
    /\ UNCHANGED <<jobVars, handoff, config, batches, pc, trainingStep, disk, batchesPrepared, batchFutures,
                   futState, popped, batchIndex, starved, lastStarveStateAdjustment, success,
                   exception, returnData, agentSaved, shardIndex, resQ, shard, failures,
                   changes, onScript>>

\* shutdownAndJoinSubProcesses, line 382: the quit command is put on the shard's queue,
\* after which no command follows.
SendQuitCommand ==
    /\ pc = "weights"
    /\ shard[0].state = "loop"
    /\ \A i \in 1 .. Len(cmdQ[0]) : cmdQ[0][i] # "quit"
    /\ cmdQ' = [cmdQ EXCEPT ![0] = Append(@, "quit")]
    /\ UNCHANGED <<jobVars, handoff, config, batches, lossQ, pc, trainingStep, disk, batchesPrepared,
                   batchFutures, futState, popped, batchIndex, starved,
                   lastStarveStateAdjustment, success, exception, returnData, agentSaved,
                   shardIndex, resQ, shard, failures, changes, onScript>>

NextWeights ==
    \/ SendUpdateLoss
    \/ SendQuitCommand
    \/ ProcessCommand(0)
    \/ TraceSaveCompletes(0)
    \/ ShardExit(0)

SpecWeights == InitWeights /\ [][NextWeights]_vars

\* ------------------------------------------------ the sample cache on its own
\* The workers of a shard's process pool run prepareBatchesForExecutionTrace
\* for the traces of one execution session of three traces.  A trace is
\* selectable when it is not the last of its session (line 708).  cache.file
\* is the state of the cache file of each selectable trace: "absent",
\* "partial" (opened for writing and truncated, not all bytes written) or
\* "complete"; cache.written holds the traces of which a write has been
\* completed, cache.regenerated says that a request that regenerated the
\* session has returned, and cache.badTrace is the trace, if any, whose cache
\* file the file system refuses to open for writing.
SelectableTraces == {0, 1}
CacheWorkers == {1, 2}

\* writeSingleExecutionTrace, line 424.
maxAttempts == 10

\* A worker of the pool between two calls.  traceId is the trace of the call,
\* writes the state of each writeSingleExecutionTrace of its regeneration
\* ("todo", "open", "done", or "gaveUp" when the call returned without having
\* written), attempt the number of failed attempts of the write of the bad
\* trace, and outcome what the call returned: "hit" or "miss" (the value of
\* cacheHit) or "error" when it raised.  sessionCached says that line 455
\* logged the session as added; gaveUp, that a write of the call returned
\* without having written; readOfWritten, that the call read a file of
\* which a write had been completed; afterRegeneration, that the call began
\* after a request that regenerated the session had returned.
IdleWorker ==
    [pc |-> "idle", traceId |-> 0, writes |-> [t \in SelectableTraces |-> "todo"],
     attempt |-> 0, outcome |-> "none", sessionCached |-> FALSE, gaveUp |-> FALSE,
     readOfWritten |-> FALSE,
     afterRegeneration |-> FALSE]

InitCache ==
    /\ \E bad \in SelectableTraces \cup {0 - 1} :
            cache = [file |-> [t \in SelectableTraces |-> "absent"], written |-> {},
                     badTrace |-> bad, regenerated |-> FALSE,
                     worker |-> [w \in CacheWorkers |-> IdleWorker]]
    /\ draw = NoDraw
    /\ assembly = NoAssembly
    /\ task = NoTask
    /\ \E c \in {MakeConfig(1, 1, 0, 1, 1, 0, 1, 2, 1, 3, 1, 0, FALSE)} :
            InitRun(c, "cache", NewTrainingStep, InitialShard)

\* lines 481-493, the reads: what reading the cache file of trace t gives.
ReadOutcome(t, hit) ==
    CASE cache.file[t] = "complete" -> hit
      [] OTHER -> "error"

\* prepareBatchesForExecutionTrace, lines 466-491: worker w is called for trace
\* t.  The file is read when it exists (a file that is not whole does not
\* unpickle, and the exception is raised at line 555); when it does not exist
\* the session is regenerated.
Lookup(w, t) ==
    /\ pc = "cache"
    /\ cache.worker[w].pc = "idle"
    /\ cache' = [cache EXCEPT !.worker[w] =
                    IF cache.file[t] = "absent"
                    THEN [IdleWorker EXCEPT !.pc = "regenerating", !.traceId = t,
                                            !.afterRegeneration = cache.regenerated]
                    ELSE [IdleWorker EXCEPT !.pc = "returned", !.traceId = t,
                                            !.outcome = ReadOutcome(t, "hit"),
                                            !.readOfWritten = t \in cache.written,
                                            !.afterRegeneration = cache.regenerated]]
    /\ UNCHANGED <<runVars, draw, assembly, task>>

\* writeSingleExecutionTrace, lines 425-428: open(cacheFile, 'wb') truncates
\* the file of trace t, whatever it held.
OpenCacheFile(w, t) ==
    /\ pc = "cache"
    /\ cache.worker[w].pc = "regenerating"
    /\ cache.worker[w].writes[t] = "todo"
    /\ cache' = [cache EXCEPT !.file[t] = "partial", !.worker[w].writes[t] = "open"]
    /\ UNCHANGED <<runVars, draw, assembly, task>>

\* What writeSingleExecutionTrace does when the last attempt has failed.
AfterLastAttempt == "gaveUp"

\* writeSingleExecutionTrace, lines 425-432: the attempt raises OSError; the
\* worker sleeps 1.5 ** attempt seconds and tries again, and after maxAttempts
\* attempts the for loop ends and the function returns.
WriteAttemptFails(w, t) ==
    /\ pc = "cache"
    /\ cache.worker[w].pc = "regenerating"
    /\ cache.worker[w].writes[t] = "todo"
    /\ t = cache.badTrace
    /\ cache.worker[w].attempt < maxAttempts
    /\ cache' = [cache EXCEPT
                    !.worker[w].attempt = @ + 1,
                    !.worker[w].writes[t] =
                        IF cache.worker[w].attempt + 1 = maxAttempts
                        THEN AfterLastAttempt ELSE @]
    /\ UNCHANGED <<runVars, draw, assembly, task>>

\* writeSingleExecutionTrace, lines 427-429: all bytes are written, the file
\* is closed.
CloseCacheFile(w, t) ==
    /\ pc = "cache"
    /\ cache.worker[w].pc = "regenerating"
    /\ cache.worker[w].writes[t] = "open"
    /\ cache' = [cache EXCEPT !.file[t] = "complete", !.written = @ \cup {t},
                              !.worker[w].writes[t] = "done"]
    /\ UNCHANGED <<runVars, draw, assembly, task>>

\* addExecutionSessionToSampleCache, lines 449-456, and
\* prepareBatchesForExecutionTrace, lines 491-494: every
\* writeSingleExecutionTrace has returned, the session is logged as added,
\* and the cache file of the requested trace is read.
FinishRegeneration(w) ==
    /\ pc = "cache"
    /\ cache.worker[w].pc = "regenerating"
    /\ \A t \in SelectableTraces : cache.worker[w].writes[t] \in {"done", "gaveUp"}
    /\ LET t == cache.worker[w].traceId
           outcome == ReadOutcome(t, "miss")
       IN cache' = [cache EXCEPT
                        !.regenerated = @ \/ outcome = "miss",
                        !.worker[w] =
                            [IdleWorker EXCEPT
                                !.pc = "returned",
                                !.traceId = t,
                                !.outcome = outcome,
                                !.sessionCached = TRUE,
                                !.gaveUp = \E u \in SelectableTraces :
                                                cache.worker[w].writes[u] = "gaveUp",
                                !.readOfWritten = t \in cache.written,
                                !.afterRegeneration = cache.worker[w].afterRegeneration]]
    /\ UNCHANGED <<runVars, draw, assembly, task>>

\* The pool hands the result to the job thread; the worker is free again.
WorkerFree(w) ==
    /\ pc = "cache"
    /\ cache.worker[w].pc = "returned"
    /\ cache' = [cache EXCEPT !.worker[w] = IdleWorker]
    /\ UNCHANGED <<runVars, draw, assembly, task>>

NextCache ==
    \/ \E w \in CacheWorkers, t \in SelectableTraces : Lookup(w, t)
    \/ \E w \in CacheWorkers, t \in SelectableTraces : OpenCacheFile(w, t)
    \/ \E w \in CacheWorkers, t \in SelectableTraces : WriteAttemptFails(w, t)
    \/ \E w \in CacheWorkers, t \in SelectableTraces : CloseCacheFile(w, t)
    \/ \E w \in CacheWorkers : FinishRegeneration(w)
    \/ \E w \in CacheWorkers : WorkerFree(w)

SpecCache == InitCache /\ [][NextCache]_vars

\* ------------------------------------------------- a batch draw on its own
\* prepareAndLoadSingleBatchForSubprocess, lines 558-582, applied to one list
\* of weight datas: draw.traceIds and draw.weights are the 'id' and 'weight'
\* of executionTraceWeightDatas in list order, the weights being whatever
\* update-loss has left in memory (below, inside and above the configured
\* range).
StoredWeights == {0, 10, 20}

DrawConfigs ==
    {[MakeConfig(1, 1, 0, 1, 1, 0, 1, 2, 1, 3, bias, 0, TRUE) EXCEPT !.batch_size = size] :
        bias \in 0..MaxBias, size \in {1, 2}}

InitDraw ==
    /\ \E n \in 1..MaxTraces : \E weights \in [1..n -> StoredWeights] :
       \E cacheFullState \in BOOLEAN :
            draw = [NoDraw EXCEPT !.traceIds = [i \in 1..n |-> i - 1],
                                  !.weights = weights,
                                  !.cacheFullState = cacheFullState]
    /\ cache = NoCache
    /\ assembly = NoAssembly
    /\ task = NoTask
    /\ \E c \in DrawConfigs : InitRun(c, "draw", NewTrainingStep, InitialShard)

Minimum(a, b) == IF a <= b THEN a ELSE b

Maximum(a, b) == IF a >= b THEN a ELSE b

\* The weights are taken as they are stored.
ClampedWeights_Unclamped(c, weights) == weights

\* lines 560-561: numpy.minimum(maximum_weight, .) then numpy.maximum(minimum_weight, .).
ClampedWeights(c, weights) ==
    [i \in DOMAIN weights |->
        Maximum(c.training_trace_selection_minimum_weight,
                Minimum(c.training_trace_selection_maximum_weight, weights[i]))]

\* line 573: numpy.arange(0, stop, step) = 0, step, 2 step, ... below stop.
Arange(stop, step) == [i \in 1..BiasLength(stop, step) |-> (i - 1) * step]

\* numpy broadcasting of two one-dimensional arrays: equal lengths, or one of
\* them of length one, which is then stretched to the other's length (also to
\* length zero).
Broadcasts(a, b) == Len(a) = Len(b) \/ Len(a) = 1 \/ Len(b) = 1

BroadcastLength(a, b) == IF Len(a) = 1 THEN Len(b) ELSE Len(a)

\* line 573: traceWeights + arange, when the two broadcast.
Added(a, b) ==
    [i \in 1..BroadcastLength(a, b) |->
        a[IF Len(a) = 1 THEN 1 ELSE i] + b[IF Len(b) = 1 THEN 1 ELSE i]]

\* line 573: the bias vector of a draw (none in the cache full state).
BiasVector(c, cacheFullState, clamped) ==
    IF cacheFullState
    THEN <<>>
    ELSE Arange(c.training_trace_selection_cache_not_full_state_one_side_bias, Len(clamped))

\* lines 563-573: the weights handed to the softmax.
BiasedWeights(c, cacheFullState, clamped) ==
    IF cacheFullState
    THEN clamped
    ELSE Added(clamped, BiasVector(c, cacheFullState, clamped))

\* line 573 raises ValueError when the two arrays do not broadcast; line 578
\* raises ValueError when the probabilities are not one per trace id.
DrawMustRaise(c, d) ==
    LET clamped == ClampedWeights(c, d.weights)
        bias == BiasVector(c, d.cacheFullState, clamped)
    IN  IF ~d.cacheFullState /\ ~Broadcasts(clamped, bias)
        THEN TRUE
        ELSE Len(BiasedWeights(c, d.cacheFullState, clamped)) # Len(d.traceIds)

\* line 575: the softmax of finitely many finite weights gives every position
\* a positive probability, so line 578 may draw any position of traceIds.
Drawable(traceWeights) == DOMAIN traceWeights

\* lines 701-716: the keys of executionTraceWeightDataIdMap are the ids of
\* the weight datas of the list.
IdMapKeys(d) == {d.traceIds[i] : i \in DOMAIN d.traceIds}

\* lines 558-582 when nothing raises: batch_size ids are drawn with
\* replacement and each is looked up in the id map.
DrawTraces ==
    /\ pc = "draw"
    /\ ~draw.done
    /\ ~DrawMustRaise(config, draw)
    /\ LET clamped == ClampedWeights(config, draw.weights)
           traceWeights == BiasedWeights(config, draw.cacheFullState, clamped)
       IN  \E positions \in [1..config.batch_size -> Drawable(traceWeights)] :
                LET chosen == [k \in 1..config.batch_size |-> draw.traceIds[positions[k]]]
                IN  draw' = [draw EXCEPT
                                !.clamped = clamped,
                                !.bias = BiasVector(config, draw.cacheFullState, clamped),
                                !.traceWeights = traceWeights,
                                !.chosen = chosen,
                                !.raised = \E k \in 1..config.batch_size :
                                                chosen[k] \notin IdMapKeys(draw),
                                !.done = TRUE]
    /\ UNCHANGED <<runVars, cache, assembly, task>>

\* lines 558-578 when line 573 or line 578 raises: nothing is drawn and the
\* except clause of line 634 takes over.
DrawRaises ==
    /\ pc = "draw"
    /\ ~draw.done
    /\ DrawMustRaise(config, draw)
    /\ LET clamped == ClampedWeights(config, draw.weights)
       IN  draw' = [draw EXCEPT !.clamped = clamped,
                                !.bias = BiasVector(config, draw.cacheFullState, clamped),
                                !.raised = TRUE,
                                !.done = TRUE]
    /\ UNCHANGED <<runVars, cache, assembly, task>>

NextDraw == DrawTraces \/ DrawRaises

SpecDraw == InitDraw /\ [][NextDraw]_vars

\* ------------------------------------------- a batch assembly on its own
\* prepareAndLoadSingleBatchForSubprocess, lines 599-623, applied to a list of
\* samples of one row each.  A sample is the dictionary that
\* prepareBatchesForExecutionTrace pickles (lines 497-548): numpy arrays with
\* one row (processedImages, actionXs), python lists with one element
\* (traceIds), and for each of the three symbol variants a list holding one
\* array of symbol indexes and one equally long array of symbol weights.  A
\* row of a fixed-shape array is an integer here.
SymbolKeys ==
    <<"symbolIndexes", "symbolWeights", "nextSymbolIndexes", "nextSymbolWeights",
      "decayingFutureSymbolIndexes", "decayingFutureSymbolWeights">>

\* samples[0].keys(), in the order of the dictionary.
SampleKeys == <<"processedImages", "actionXs", "traceIds">> \o SymbolKeys

\* line 602-604: the keys that are not concatenated the normal way.
IsSymbolKey(key) == \E k \in DOMAIN SymbolKeys : SymbolKeys[k] = key

\* line 620: isNumpyArray(samples[0][key]).
isNumpyArray(key) == key \in {"processedImages", "actionXs"}

\* lines 613-618: 'next' in key, 'decaying' in key, or neither.
OffsetsKey(key) ==
    IF key \in {"nextSymbolIndexes", "nextSymbolWeights"}
    THEN "nextSymbolOffsets"
    ELSE IF key \in {"decayingFutureSymbolIndexes", "decayingFutureSymbolWeights"}
         THEN "decayingFutureSymbolOffsets"
         ELSE "symbolOffsets"

\* The sample at position tag of the list, with symbol segments of the given
\* lengths.
MakeSample(tag, current, next, decaying) ==
    [processedImages |-> <<100 + tag>>,
     actionXs |-> <<200 + tag>>,
     traceIds |-> <<tag>>,
     symbolIndexes |-> <<[j \in 1..current |-> 10 * tag + j]>>,
     symbolWeights |-> <<[j \in 1..current |-> 1]>>,
     nextSymbolIndexes |-> <<[j \in 1..next |-> 10 * tag + 3 + j]>>,
     nextSymbolWeights |-> <<[j \in 1..next |-> 2]>>,
     decayingFutureSymbolIndexes |-> <<[j \in 1..decaying |-> 10 * tag + 6 + j]>>,
     decayingFutureSymbolWeights |-> <<[j \in 1..decaying |-> 3]>>]

InitAssemble ==
    /\ \E n \in 1..MaxSamples :
       \E current \in [1..n -> {0, 1, 2}] :
       \E next \in [1..n -> {0, 1}] :
       \E decaying \in [1..n -> {1, 2}] :
            assembly = [NoAssembly EXCEPT
                            !.samples = [i \in 1..n |->
                                            MakeSample(i, current[i], next[i], decaying[i])]]
    /\ cache = NoCache
    /\ draw = NoDraw
    /\ task = NoTask
    /\ \E c \in {MakeConfig(1, 1, 0, 1, 1, 0, 1, 2, 1, 3, 1, 0, TRUE)} :
            InitRun(c, "assemble", NewTrainingStep, InitialShard)

\* numpy.concatenate(arrays, axis=0) of the arrays from position i on.
RECURSIVE Concatenate(_, _)
Concatenate(arrays, i) ==
    IF i > Len(arrays) THEN <<>> ELSE arrays[i] \o Concatenate(arrays, i + 1)

\* The number of rows of the sample's field itself.
SegmentLength_OfTheList(sample, key) == Len(sample[key])

\* line 611: len(sample[key][0]).
SegmentLength(sample, key) == Len(sample[key][1])

\* lines 607-611: the offsets appended from sample i on, currentOffset being
\* the sum of the lengths before it.
RECURSIVE Offsets(_, _, _, _)
Offsets(samples, key, i, currentOffset) ==
    IF i > Len(samples)
    THEN <<>>
    ELSE <<currentOffset>>
            \o Offsets(samples, key, i + 1, currentOffset + SegmentLength(samples[i], key))

\* batch[key] = value, for a new or an existing key.
Assigned(batch, key, value) ==
    [k \in DOMAIN batch \cup {key} |-> IF k = key THEN value ELSE batch[k]]

\* lines 600-623: one pass of the loop over the keys, for the key at position
\* k of the keys and the batch built so far.
RECURSIVE AssembleFrom(_, _, _)
AssembleFrom(samples, k, batch) ==
    IF k > Len(SampleKeys)
    THEN batch
    ELSE LET key == SampleKeys[k]
         IN  AssembleFrom(samples, k + 1,
                IF IsSymbolKey(key)
                THEN Assigned(Assigned(batch, key,
                                Concatenate([i \in 1..Len(samples) |-> samples[i][key][1]], 1)),
                              OffsetsKey(key), Offsets(samples, key, 1, 0))
                ELSE IF isNumpyArray(key)
                     THEN Assigned(batch, key,
                                Concatenate([i \in 1..Len(samples) |-> samples[i][key]], 1))
                     ELSE Assigned(batch, key, [i \in 1..Len(samples) |-> samples[i][key][1]]))

\* lines 599-623.
AssembleBatch ==
    /\ pc = "assemble"
    /\ ~assembly.done
    /\ assembly' = [assembly EXCEPT !.batch = AssembleFrom(assembly.samples, 1, <<>>),
                                    !.done = TRUE]
    /\ UNCHANGED <<runVars, cache, draw, task>>

NextAssemble == AssembleBatch

SpecAssemble == InitAssemble /\ [][NextAssemble]_vars

\* ------------------------------------------ a managed task subprocess
\* ManagedTaskSubprocess.py: one object after start() (lines 70-83), the two
\* monitoring threads, the caller of waitForProcessResult, and the process tree
\* of the task: the process started by Popen and one child of it.
\*   task.alive           self.alive
\*   task.timedOut        datetime.now() - self.startTime exceeds self.timeout
\*   task.returncodeSet   self.process.returncode is not None
\*   task.polls           Popen.send_signal() of the library polls the process
\*                        before it signals it (it does from Python 3.9 on)
\*   task.process         "running", "zombie" (ended, not waited for) or
\*                        "reaped"; task.child: "running", "gone" or "none"
\*   task.script          what the task writes to its standard output, in
\*                        pieces; task.log the pieces written to the log file
\*   task.currentLogSize  self.currentLogSize, task.output self.output
\*   task.thread          the position of each monitoring thread
\*   task.listed          the local "children" of hardKillProcess of a thread
\*   task.waiter          the position of the caller of waitForProcessResult,
\*                        task.result what it returned
MonitorThreads == {"timeout", "output"}

\* What a task writes: the result between TaskProcess.resultStartString and
\* TaskProcess.resultFinishString, or the trace of an exception.
TaskScripts == {<<"resultStart", "resultFinish">>, <<"Traceback">>}

Contains(output, piece) == \E i \in 1 .. Len(output) : output[i] = piece

\* lines 142-150.
doesOutputHaveExitString(output) ==
    IF Contains(output, "Traceback") THEN TRUE
    ELSE Contains(output, "resultFinish")

\* lines 130-140.
extractResultFromOutput(output) ==
    IF ~Contains(output, "resultStart") \/ ~Contains(output, "resultFinish")
    THEN "None"
    ELSE "parsed"

\* lines 45-83: the object constructed and started, the task process running
\* with or without a child process.
InitTask ==
    /\ \E script \in TaskScripts, child \in {"running", "none"}, polls \in BOOLEAN :
            task = [NoTask EXCEPT !.alive = TRUE, !.process = "running", !.child = child,
                                  !.script = script, !.polls = polls,
                                  !.thread = [th \in MonitorThreads |-> "loop"],
                                  !.waiter = "waiting"]
    /\ cache = NoCache
    /\ draw = NoDraw
    /\ assembly = NoAssembly
    /\ \E c \in {MakeConfig(1, 1, 0, 1, 1, 0, 1, 2, 1, 3, 1, 0, TRUE)} :
            InitRun(c, "task", NewTrainingStep, InitialShard)

\* The task writes the next piece of its output to the log file.
TaskWrites ==
    /\ pc = "task"
    /\ task.process = "running"
    /\ Len(task.log) < Len(task.script)
    /\ task' = [task EXCEPT !.log = Append(@, task.script[Len(task.log) + 1])]
    /\ UNCHANGED <<runVars, cache, draw, assembly>>

\* The task process ends, by itself or on a signal it has been sent; nothing
\* in the class waits for it, so it stays a zombie.
TaskEnds ==
    /\ pc = "task"
    /\ task.process = "running"
    /\ task' = [task EXCEPT !.process = "zombie"]
    /\ UNCHANGED <<runVars, cache, draw, assembly>>

\* The child process ends and is waited for by its parent.
ChildEnds ==
    /\ pc = "task"
    /\ task.child = "running"
    /\ task' = [task EXCEPT !.child = "gone"]
    /\ UNCHANGED <<runVars, cache, draw, assembly>>

\* line 190-191: from now on elapsedSeconds > self.timeout.
TimeoutElapses ==
    /\ pc = "task"
    /\ ~task.timedOut
    /\ task' = [task EXCEPT !.timedOut = TRUE]
    /\ UNCHANGED <<runVars, cache, draw, assembly>>

\* timeoutMonitoringThread, lines 189-195: one pass of the loop that does not
\* only sleep; the thread ends when self.alive is False.
timeoutMonitoringThread ==
    /\ pc = "task"
    /\ task.thread["timeout"] = "loop"
    /\ ~task.alive \/ task.timedOut
    /\ task' = [task EXCEPT !.thread["timeout"] = IF ~task.alive THEN "done" ELSE "terminate"]
    /\ UNCHANGED <<runVars, cache, draw, assembly>>

\* The position of a thread when stopProcessBothMethods has returned: line 195
\* and the loop test, and line 184.
AfterStop(th) == IF th = "timeout" THEN "loop" ELSE "additional"

\* line 102: Popen.terminate().  Where the library polls the process first, a
\* zombie is reaped and its return code is set.
Terminate(t) ==
    IF t.polls /\ t.process = "zombie"
    THEN [t EXCEPT !.process = "reaped", !.returncodeSet = TRUE]
    ELSE t

\* stopProcessBothMethods, lines 119-121, with gracefullyTerminateProcess
\* (lines 100-102).
gracefullyTerminateProcess(th) ==
    /\ pc = "task"
    /\ task.thread[th] = "terminate"
    /\ task' = IF task.returncodeSet
               THEN [task EXCEPT !.thread[th] = "kill"]
               ELSE [Terminate(task) EXCEPT !.alive = FALSE, !.thread[th] = "kill"]
    /\ UNCHANGED <<runVars, cache, draw, assembly>>

\* lines 108-110: the children of the process, then the process.
ListedProcesses(t) ==
    (IF t.child = "running" THEN <<"child">> ELSE <<>>) \o <<"process">>

\* stopProcessBothMethods, line 125, and hardKillProcess, lines 106-110:
\* psutil.Process raises NoSuchProcess for a process that has been reaped.
hardKillProcess(th) ==
    /\ pc = "task"
    /\ task.thread[th] = "kill"
    /\ task' = IF task.returncodeSet THEN [task EXCEPT !.thread[th] = AfterStop(th)]
               ELSE IF task.process = "reaped"
                    THEN [task EXCEPT !.alive = FALSE, !.thread[th] = AfterStop(th)]
                    ELSE [task EXCEPT !.alive = FALSE, !.thread[th] = "signal",
                                      !.listed[th] = ListedProcesses(task)]
    /\ UNCHANGED <<runVars, cache, draw, assembly>>

\* lines 111-114 for the listed processes from position i on: signal 9 to each
\* in turn; send_signal raises NoSuchProcess for a process that is gone, which
\* ends the loop.
RECURSIVE SendSignals(_, _, _)
SendSignals(t, listed, i) ==
    IF i > Len(listed) THEN t
    ELSE IF listed[i] = "child"
         THEN IF t.child = "running"
              THEN SendSignals([t EXCEPT !.child = "gone"], listed, i + 1)
              ELSE t
         ELSE IF t.process = "reaped" THEN t
              ELSE SendSignals([t EXCEPT !.process = "zombie"], listed, i + 1)

\* hardKillProcess, lines 111-114, and line 127.
sendKillSignals(th) ==
    /\ pc = "task"
    /\ task.thread[th] = "signal"
    /\ task' = [SendSignals(task, task.listed[th], 1) EXCEPT
                    !.thread[th] = AfterStop(th), !.listed[th] = <<>>]
    /\ UNCHANGED <<runVars, cache, draw, assembly>>

\* getLatestLogOutput, lines 86-97, and the loop body at lines 169-176: what
\* the log file holds beyond currentLogSize is appended to self.output.
ReadLog(t) ==
    [t EXCEPT !.output = @ \o SubSeq(t.log, t.currentLogSize + 1, Len(t.log)),
              !.currentLogSize = Len(t.log)]

\* outputMonitoringThread, lines 166-181: one pass of the loop that does not
\* only sleep, or the end of the loop.
outputMonitoringThread ==
    /\ pc = "task"
    /\ task.thread["output"] = "loop"
    /\ IF ~task.returncodeSet /\ ~doesOutputHaveExitString(task.output) /\ task.alive
       THEN /\ task.currentLogSize < Len(task.log)
            /\ task' = ReadLog(task)
       ELSE task' = [task EXCEPT !.alive = FALSE, !.thread["output"] = "terminate"]
    /\ UNCHANGED <<runVars, cache, draw, assembly>>

\* outputMonitoringThread, lines 184-186.
readAdditionalOutput ==
    /\ pc = "task"
    /\ task.thread["output"] = "additional"
    /\ task' = [ReadLog(task) EXCEPT !.thread["output"] = "done"]
    /\ UNCHANGED <<runVars, cache, draw, assembly>>

\* waitForProcessResult, lines 152-159.
waitForProcessResult ==
    /\ pc = "task"
    /\ task.waiter = "waiting"
    /\ ~task.alive
    /\ task' = [task EXCEPT !.waiter = "returned",
                            !.result = extractResultFromOutput(task.output)]
    /\ UNCHANGED <<runVars, cache, draw, assembly>>

NextTask ==
    \/ TaskWrites
    \/ TaskEnds
    \/ ChildEnds
    \/ TimeoutElapses
    \/ timeoutMonitoringThread
    \/ outputMonitoringThread
    \/ readAdditionalOutput
    \/ waitForProcessResult
    \/ \E th \in MonitorThreads :
        \/ gracefullyTerminateProcess(th)
        \/ hardKillProcess(th)
        \/ sendKillSignals(th)

SpecTask == InitTask /\ [][NextTask]_vars

\* The threads of the manager are scheduled: a thread that can take a step
\* takes one.  Neither the task nor the clock is constrained.
TaskFairness ==
    /\ WF_vars(timeoutMonitoringThread)
    /\ WF_vars(outputMonitoringThread)
    /\ WF_vars(readAdditionalOutput)
    /\ WF_vars(waitForProcessResult)
    /\ \A th \in MonitorThreads :
        /\ WF_vars(gracefullyTerminateProcess(th))
        /\ WF_vars(hardKillProcess(th))
        /\ WF_vars(sendKillSignals(th))

SpecTaskFair == SpecTask /\ TaskFairness

\* ------------------------------------------------------- fair scheduling
\* The coordinator is one thread of control: when it can take a step it
\* takes one.  What the learner answers is not constrained.
CoordinatorStep ==
    \/ StartSubprocesses
    \/ Handshake
    \/ queueBatchesForPrecomputation
    \/ IterationStart
    \/ FetchReadyBatch
    \/ FetchOldestBatch
    \/ AwaitBatch
    \/ LearnSucceeds
    \/ LearnNaN
    \/ LearnRaises
    \/ FinishTrainingStep
    \/ ExecutorShutdown
    \/ SendQuit
    \/ JoinExited
    \/ JoinTimeoutKill
    \/ saveAgent
    \/ ReturnFromTraining

\* The control thread of shard s and the workers of its background pool.
ShardStep(s) ==
    /\ s \in Shards
    /\ (ShardInitialize(s) \/ ProcessCommand(s) \/ ShardExit(s) \/ TraceSaveCompletes(s))

\* A job of shard s running on its thread executor comes to an end.
JobStep(s) ==
    /\ s \in Shards
    /\ \E j \in 1 .. Len(shard[s].jobs) : JobSucceeds(s, j) \/ JobFails(s, j) \/ JobReturns(s, j)

ShardIds == {0, 1}

\* Every thread of the coordinator's executor, every shard process and every
\* job thread is scheduled again and again.
Fairness ==
    /\ WF_vars(CoordinatorStep)
    /\ WF_vars(\E id \in FutureIds : RequestBatch(id))
    /\ WF_vars(\E id \in FutureIds : ReceiveBatch(id))
    /\ \A s \in ShardIds : WF_vars(ShardStep(s))
    /\ \A s \in ShardIds : WF_vars(JobStep(s))

\* Runs in which the coordinator can starve while the one-side bias cannot be
\* broadcast, and the runs without data.
FairConfigs ==
    {MakeConfig(MaxIterations - 1, 1, 0, 1, 1, 0, 1, 2, 1, 3, 5, 0, TRUE)} \cup NoDataConfigs

InitFair == \E c \in FairConfigs : InitWith(c)

SpecFair == InitFair /\ [][Next]_vars /\ Fairness

\* ------------------------------------------------------------- properties
depth == config.training_precompute_batches_count

\* C1: after the initial fill the coordinator never holds more than the
\* prefetch depth of outstanding batch futures, and while the submission
\* budget is not exhausted every fetch is followed by one new submission, so
\* that the window is back at the prefetch depth after each fetch.
C1_WindowBounded ==
    /\ Len(batchFutures) <= depth
    /\ (pc \in {"loop", "fetch", "learn", "finalize"}
            /\ batchesPrepared >= depth /\ batchesPrepared <= totalBatchesNeeded)
        => Len(batchFutures) = depth

\* C1 witness: a batch was fetched and replaced, and the window is full again.
C1_Witness ==
    /\ pc = "learn"
    /\ batchesPrepared > depth
    /\ batchesPrepared <= totalBatchesNeeded
    /\ Len(batchFutures) = depth

\* C2: the coordinator issues at most totalBatchesNeeded batch requests:
\* batchesPrepared never exceeds totalBatchesNeeded.
C2_WithinBudget == batchesPrepared <= totalBatchesNeeded

\* C3: every execution of the shard initialization puts exactly one handshake
\* message (ready or error) on its result channel.
C3_OneHandshake ==
    \A s \in Shards : shard[s].state \notin {"notstarted", "init"} => shard[s].handshakes = 1

\* The number of elements of sequence q that are equal to x.
Count(q, x) == Cardinality({i \in 1 .. Len(q) : q[i] = x})

RequestsSent(s) ==
    Cardinality({id \in FutureIds : ShardOfFuture(id) = s /\ futState[id] \in {"sent", "done"}})
ResultsDelivered(s) ==
    Count(resQ[s], "batch")
        + Cardinality({id \in FutureIds : ShardOfFuture(id) = s /\ futState[id] = "done"})
CommandsPending(s) == Count(cmdQ[s], "batch")
JobsInFlight(s) == Cardinality({j \in 1 .. Len(shard[s].jobs) : ~shard[s].jobs[j].reported})

\* C4: a batch job ends by putting one result or, on an exception, one new
\* batch command: for each shard the results delivered plus the batch commands
\* pending or in flight equal the batch requests the coordinator sent to it.
C4_NoRequestLost ==
    \A s \in Shards : RequestsSent(s) = ResultsDelivered(s) + CommandsPending(s) + JobsInFlight(s)

\* C4 witness: a job failed, its retry is on the command queue, and the
\* coordinator's request is still outstanding.
C4_Witness ==
    \E s \in Shards :
        /\ failures > 0
        /\ CommandsPending(s) > 0
        /\ JobsInFlight(s) = 0
        /\ ResultsDelivered(s) < RequestsSent(s)

\* C6: if the learner returned None, then when runTraining returns hadNaN is
\* set, the model was not saved, and the training step is completed and was
\* persisted after the failure.
C6_NaNGuard ==
    (pc = "returned" /\ trainingStep # NoStep /\ trainingStep.hadNaN)
        => /\ ~agentSaved
           /\ trainingStep.status = "completed"
           /\ disk = trainingStep

\* C7: whatever path runTraining takes, what it returns holds the
\* trainingStepId beside the success flag.
C7_StructuredOutcome == pc = "returned" => returnData.hasTrainingStepId

\* C8: however the training step ends, when runTraining returns the persisted
\* record holds the iterations completed and the losses recorded.
C8_ProgressPersisted ==
    (pc = "returned" /\ returnData.hasTrainingStepId)
        => /\ disk.numberOfIterationsCompleted = trainingStep.numberOfIterationsCompleted
           /\ disk.totalLosses = trainingStep.totalLosses

gap == config.training_min_batches_between_starve_state_adjustments

\* The regime changes so far, without the ready counts.
ChangeLog == [k \in 1 .. Len(changes) |-> <<changes[k][1], changes[k][2]>>]

\* C9: the regime changes to starved only on a ready count < depth / 4, back
\* to full only on a ready count >= depth / 4, two changes are never closer
\* together than the minimum iteration gap, and with a gap the script
\* satisfies, depth 20 and ready counts 18, 17, 4, 2, 10, 19 give starved at
\* index 2, full at index 4 and no other change.
C9_Hysteresis ==
    /\ \A k \in 1 .. Len(changes) :
        /\ changes[k][2] = "starved" => 4 * changes[k][3] < depth
        /\ changes[k][2] = "full" => 4 * changes[k][3] >= depth
    /\ \A k \in 1 .. (Len(changes) - 1) : changes[k + 1][1] - changes[k][1] >= gap
    /\ (/\ depth = 20
        /\ gap <= 1
        /\ onScript
        /\ trainingStep.numberOfIterationsCompleted = Len(ScriptedCounts))
        => ChangeLog = << <<2, "starved">>, <<4, "full">> >>

C9_Witness ==
    /\ pc = "hyst"
    /\ depth = 20
    /\ gap <= 1
    /\ onScript
    /\ trainingStep.numberOfIterationsCompleted = Len(ScriptedCounts)
    /\ Len(changes) = 2
    /\ ~starved

\* The regime commands waiting on a channel, as the flag values they set.
RECURSIVE RegimeFlags(_)
RegimeFlags(q) ==
    IF q = <<>> THEN <<>>
    ELSE IF Head(q) = "starved" THEN <<TRUE>> \o RegimeFlags(Tail(q))
    ELSE IF Head(q) = "full" THEN <<FALSE>> \o RegimeFlags(Tail(q))
    ELSE RegimeFlags(Tail(q))

\* The flag a shard has, followed by the flags its pending commands will set.
FlagHistory(s) == <<shard[s].starved>> \o RegimeFlags(cmdQ[s])

\* C10: every regime transition of the coordinator puts exactly one regime
\* command on every shard's channel and nothing is put without a transition:
\* on each channel the regime commands alternate starved, full, starved, ...
\* starting from the shard's initial full regime, and once a shard has
\* processed them its starved flag equals the coordinator's.
C10_RegimeBroadcast ==
    \A s \in Shards :
        /\ \A k \in 1 .. (Len(FlagHistory(s)) - 1) : FlagHistory(s)[k + 1] # FlagHistory(s)[k]
        /\ FlagHistory(s)[Len(FlagHistory(s))] = starved
        /\ (changes = <<>>) => (FlagHistory(s) = <<FALSE>>)

C10_Witness ==
    /\ config.training_batch_prep_subprocesses = 2
    /\ Len(changes) >= 2
    /\ \A s \in Shards : RegimeFlags(cmdQ[s]) = <<>> /\ shard[s].starved = starved

\* The ids a batch request can have in any configuration.
RequestIds == 0 .. (2 * MaxIterations + 3)

\* Has shard s been told to quit (or been stopped)?
ToldToQuit(s) ==
    \/ Count(cmdQ[s], "quit") > 0
    \/ shard[s].state \in {"draining", "exited", "killed"}

\* C5: under fair scheduling every batch request the coordinator has sent to
\* a shard is eventually resolved with a batch, unless the shard is told to
\* quit first (or runTraining returns, so that nobody waits for the batch).
C5_EveryRequestResolved ==
    \A id \in RequestIds :
        (id \in FutureIds /\ futState[id] = "sent")
            ~> (id \in FutureIds
                    /\ (\/ futState[id] = "done"
                        \/ ToldToQuit(ShardOfFuture(id))
                        \/ pc = "returned"))

\* Shard s ran its initialization to the end and answered "error".
ReportedError(s) == shard[s].handshakes = 1 /\ HandshakeMessage(s) = "error"

\* C11: when a shard answers error at the startup handshake, the coordinator
\* issues no batch request and runs no learning iteration, and what
\* runTraining returns has success = False.
C11_ErrorAborts ==
    (\E s \in Shards : ReportedError(s)) =>
        /\ batchesPrepared = 0
        /\ batchFutures = <<>>
        /\ \A id \in FutureIds : futState[id] = "none"
        /\ trainingStep.numberOfIterationsCompleted = 0
        /\ pc \in {"handshake", "returned"}
        /\ pc = "returned" => ~returnData.success

C11_Witness ==
    /\ pc = "returned"
    /\ ~returnData.success
    /\ 1 \in Shards
    /\ ReportedError(1)
    /\ shard[0].state = "loop"

\* What processing the command msg does to the locals of a shard that the
\* command is about: the regime flag, the submitted jobs, the loop's end.
CommandEffect(before, after, msg) ==
    CASE msg = "starved" -> after.starved /\ after.state = "loop"
      [] msg = "full" -> ~after.starved /\ after.state = "loop"
      [] msg = "quit" -> after.state = "draining" /\ after.starved = before.starved
      [] msg = "batch" ->
            /\ after.state = "loop"
            /\ after.starved = before.starved
            /\ after.jobs # <<>>
            /\ ~after.jobs[Len(after.jobs)].done
      [] OTHER -> after.state = "loop" /\ after.starved = before.starved

\* C12: a shard's control loop takes its commands one at a time in the order
\* they were put on its inbound channel: whenever the channel gets shorter,
\* exactly its oldest command has been taken, and that is the command the
\* loop has processed.
C12_CommandsInOrder ==
    [][\A s \in Shards :
            Len(cmdQ'[s]) < Len(cmdQ[s]) =>
                /\ cmdQ'[s] = Tail(cmdQ[s])
                /\ CommandEffect(shard[s], shard'[s], Head(cmdQ[s]))]_vars

C12_Witness ==
    \E s \in Shards :
        /\ shard[s].state = "loop"
        /\ ~shard[s].starved
        /\ \E i, j \in 1 .. Len(cmdQ[s]) :
            i < j /\ cmdQ[s][i] = "starved" /\ cmdQ[s][j] = "full"

\* Shard s makes a pass of its control loop for a command other than quit.
LoopPass(s) == Len(cmdQ'[s]) < Len(cmdQ[s]) /\ Head(cmdQ[s]) # "quit"

\* A resize is asked for in the pass shard s makes for the command at the
\* head of its channel: left over from an earlier pass, or by starved, by
\* full, or by the periodic trigger of a batch command.
ResizeRequested(s) ==
    \/ shard[s].needToResetPool
    \/ Head(cmdQ[s]) \in {"starved", "full"}
    \/ /\ Head(cmdQ[s]) = "batch"
       /\ shard[s].batchCount % config.training_reset_workers_every_n_batches
            = config.training_reset_workers_every_n_batches - 1

\* Shard s creates a new computation pool in this step.
Resized(s) == shard'[s].poolsCreated # shard[s].poolsCreated

\* C13: a shard retains at most one old pool; a resize asked for while an old
\* pool is retained is not performed in that pass and stays requested
\* (needToResetPool), and a resize that is requested when no old pool is
\* retained is performed in that pass.
C13_DeferredResize ==
    /\ [](\A s \in Shards :
            /\ shard[s].retained <= 1
            /\ shard[s].lastProcessPool <=> shard[s].retained = 1)
    /\ [][\A s \in Shards :
            (LoopPass(s) /\ ResizeRequested(s)) =>
                IF shard[s].lastProcessPool
                THEN shard'[s].needToResetPool /\ ~Resized(s)
                ELSE ~shard'[s].needToResetPool /\ Resized(s)]_vars

C13_Witness ==
    \E s \in Shards :
        /\ shard[s].state = "loop"
        /\ shard[s].needToResetPool
        /\ shard[s].lastProcessPool
        /\ shard[s].retained = 1

\* C14: a computation pool is never terminated while a job that was handed to
\* it is incomplete: in the control loop no unfinished job has a terminated
\* pool, and when the pools are terminated after quit every job has finished.
C14_NoPoolTerminatedEarly ==
    /\ [](\A s \in Shards :
            shard[s].state \in {"loop", "draining"} =>
                \A i \in 1 .. Len(shard[s].jobs) :
                    ~shard[s].jobs[i].done => shard[s].jobs[i].pool # "gone")
    /\ [][\A s \in Shards :
            (shard[s].workers = "alive" /\ shard'[s].workers = "terminated") =>
                \A i \in 1 .. Len(shard[s].jobs) : shard[s].jobs[i].done]_vars

C14_Witness ==
    \E s \in Shards :
        /\ shard[s].state = "loop"
        /\ ~shard[s].lastProcessPool
        /\ \E i \in 1 .. Len(shard[s].jobs) :
            shard[s].jobs[i].pool = "gone" /\ shard[s].jobs[i].done
        /\ \E i \in 1 .. Len(shard[s].jobs) :
            shard[s].jobs[i].pool = "current" /\ ~shard[s].jobs[i].done

\* C15: the jobs recorded for the old pool (lastProcessPoolFutures) are
\* exactly the unretired jobs that were handed the old pool, the jobs recorded
\* for the current pool are exactly those handed the current pool, and a job
\* is always submitted with the pool that is current, never with a pool that
\* is draining or retired.
C15_JobsFollowTheirPool ==
    /\ [](\A s \in Shards :
            \A i \in 1 .. Len(shard[s].jobs) :
                /\ shard[s].jobs[i].list = "last" <=> shard[s].jobs[i].pool = "old"
                /\ shard[s].jobs[i].list = "cur" <=> shard[s].jobs[i].pool = "current"
                /\ shard[s].jobs[i].pool # "unreferenced")
    /\ [][\A s \in Shards :
            (LoopPass(s) /\ Head(cmdQ[s]) = "batch") =>
                /\ shard'[s].jobs # <<>>
                /\ LET job == shard'[s].jobs[Len(shard'[s].jobs)]
                   IN /\ ~job.done
                      /\ IF Resized(s) THEN job.pool = "old" ELSE job.pool = "current"]_vars

C15_Witness ==
    \E s \in Shards :
        /\ shard[s].state = "loop"
        /\ shard[s].lastProcessPool
        /\ \E i \in 1 .. Len(shard[s].jobs) :
            shard[s].jobs[i].pool = "old" /\ ~shard[s].jobs[i].done
        /\ \E i \in 1 .. Len(shard[s].jobs) :
            shard[s].jobs[i].pool = "current" /\ ~shard[s].jobs[i].done

\* The regime flag of shard s after the command at the head of its channel.
StarvedAfterCommand(s) ==
    CASE Head(cmdQ[s]) = "starved" -> TRUE
      [] Head(cmdQ[s]) = "full" -> FALSE
      [] OTHER -> shard[s].starved

\* The hit rates that enter the average when shard s resizes in the pass for
\* the command at the head of its channel.
RatesAtResize(s) == cacheRates(HandleMessage(shard[s], Head(cmdQ[s])))

\* Some rate entered the average and the average is above the threshold.
AverageAboveThreshold(rates) ==
    /\ Len(rates) > 0
    /\ SumSeq(rates) > config.training_cache_full_state_min_cache_hit_rate * Len(rates)

\* C16: whenever a shard resizes, the new pool is the small cache-full pool
\* and cacheFullState becomes true if and only if the trailing hit-rate
\* average exceeds the threshold and the shard is not starved; otherwise, and
\* also when no job has completed yet, the new pool is the large one and
\* cacheFullState becomes false.
C16_ResizeDecision ==
    [][\A s \in Shards :
            (LoopPass(s) /\ Resized(s)) =>
                IF AverageAboveThreshold(RatesAtResize(s)) /\ ~StarvedAfterCommand(s)
                THEN shard'[s].cacheFullState /\ shard'[s].processPool = "cacheFull"
                ELSE ~shard'[s].cacheFullState /\ shard'[s].processPool = "max"]_vars

C16_Witness ==
    \E s \in Shards :
        /\ shard[s].state = "loop"
        /\ shard[s].processPool = "max"
        /\ ~shard[s].cacheFullState
        /\ ~shard[s].starved
        /\ shard[s].jobs # <<>>
        /\ \A i \in 1 .. Len(shard[s].jobs) : ~shard[s].jobs[i].done

\* Shard s schedules a resize in this step: needToResetPool becomes set, or a
\* pool is created without a request left over from an earlier pass.
ResizeScheduled(s) ==
    /\ ~shard[s].needToResetPool
    /\ shard'[s].needToResetPool \/ Resized(s)

\* C17 (as the code has it): a shard schedules a resize only when it
\* processes a starved or full command, or a batch command on which the
\* periodic reset falls (batchCount % training_reset_workers_every_n_batches
\* = training_reset_workers_every_n_batches - 1); update-loss commands and
\* finishing jobs schedule none.
C17_ResizeTriggers ==
    [][\A s \in Shards :
            ResizeScheduled(s) =>
                /\ LoopPass(s)
                /\ \/ Head(cmdQ[s]) \in {"starved", "full"}
                   \/ /\ Head(cmdQ[s]) = "batch"
                      /\ shard[s].batchCount % config.training_reset_workers_every_n_batches
                            = config.training_reset_workers_every_n_batches - 1]_vars

\* C17 (as stated): a shard schedules a resize only in response to a starved
\* or full command.
C17_OnlyRegimeCommands ==
    [][\A s \in Shards :
            ResizeScheduled(s) =>
                LoopPass(s) /\ Head(cmdQ[s]) \in {"starved", "full"}]_vars

\* A shard has resized although the coordinator never changed the regime.
C17_Witness ==
    \E s \in Shards :
        /\ shard[s].state = "loop"
        /\ shard[s].poolsCreated = 1
        /\ changes = <<>>
        /\ ~shard[s].starved

\* C18: once a shard has processed quit it takes no further command from its
\* command queue and its control state no longer changes; it leaves only when
\* every job it had in flight has returned, and then the current pool and the
\* old pool, if any, are terminated; and a shard that has processed quit does
\* exit (unless the coordinator's join timeout kills it first).
C18_QuitEndsTheShard ==
    /\ [][\A s \in Shards :
            /\ (shard[s].state \in {"draining", "exited"} /\ shard'[s].state # "killed") =>
                    /\ Len(cmdQ'[s]) >= Len(cmdQ[s])
                    /\ Len(shard'[s].jobs) <= Len(shard[s].jobs)
                    /\ shard'[s].batchCount = shard[s].batchCount
                    /\ shard'[s].starved = shard[s].starved
                    /\ shard'[s].needToResetPool = shard[s].needToResetPool
                    /\ shard'[s].processPool = shard[s].processPool
                    /\ shard'[s].cacheFullState = shard[s].cacheFullState
                    /\ shard'[s].poolsCreated = shard[s].poolsCreated
            /\ (shard[s].state = "draining" /\ shard'[s].state = "exited") =>
                    /\ \A i \in 1 .. Len(shard[s].jobs) : shard[s].jobs[i].done
                    /\ shard'[s].workers = "terminated"
                    /\ shard'[s].retained = 0
                    /\ ~shard'[s].lastProcessPool]_vars
    /\ \A s \in ShardIds :
            (s \in Shards /\ shard[s].state = "draining")
                ~> (s \in Shards /\ shard[s].state \in {"exited", "killed"})

\* A shard has processed quit while a job it submitted has not returned yet.
C18_Witness ==
    \E s \in Shards :
        /\ shard[s].state = "draining"
        /\ cmdQ[s] = <<>>
        /\ \E i \in 1 .. Len(shard[s].jobs) : ~shard[s].jobs[i].done

\* C19: when shutdownAndJoinSubProcesses has gone through every shard, every
\* shard process has exited or was killed, and no worker process of any
\* shard's pools is alive.
C19_NoProcessLeftAlive ==
    pc = "saveAgent" =>
        \A s \in Shards :
            /\ shard[s].state \in {"exited", "killed"}
            /\ shard[s].workers # "alive"

\* The update-loss data put on shard s's queue by this step.
NewLossData(s) == SubSeq(lossQ'[s], Len(lossQ[s]) + 1, Len(lossQ'[s]))

\* The commands put on shard s's queue by this step.
NewCommands(s) == SubSeq(cmdQ'[s], Len(cmdQ[s]) + 1, Len(cmdQ'[s]))

\* C20: when the learner has returned losses, the shard that owns the traces
\* of a batch receives exactly one update-loss command per sample of the
\* batch, carrying the trace id and a loss the learner returned; and a shard
\* that processes an update-loss command for a trace it does not own leaves
\* its weight and its pending write-back as they were.
C20_UpdateLossRouting ==
    [][/\ (pc = "learn" /\ pc' \in {"loop", "finalize"} /\ success') =>
            \A o \in Shards :
                /\ lossQ[o] = SubSeq(lossQ'[o], 1, Len(lossQ[o]))
                /\ cmdQ[o] = SubSeq(cmdQ'[o], 1, Len(cmdQ[o]))
                /\ Len(NewCommands(o)) = Len(NewLossData(o))
                /\ \A k \in 1 .. Len(NewCommands(o)) :
                        /\ NewCommands(o)[k] = "update-loss"
                        /\ NewLossData(o)[k].sampleRewardLoss \in SampleRewardLosses
                /\ Cardinality({k \in 1 .. Len(NewLossData(o)) :
                                    NewLossData(o)[k].executionTraceId = o})
                        = config.batch_size
                            * Cardinality({i \in 1 .. Len(batches) : batches[i] = o})
       /\ \A s \in Shards :
            (/\ LoopPass(s)
             /\ Head(cmdQ[s]) = "update-loss"
             /\ Head(lossQ[s]).executionTraceId \notin shard[s].traceIds) =>
                /\ shard'[s].weight = shard[s].weight
                /\ shard'[s].traceSaveFuture = shard[s].traceSaveFuture]_vars

\* Of two shards, one has taken the loss of its trace for its weight, and the
\* other has processed every update-loss command it was sent, the one for
\* that trace among them, and has the weight it loaded.
C20_Witness ==
    /\ 1 \in Shards
    /\ \E o \in {0, 1} :
        /\ shard[o].weight \in SampleRewardLosses
        /\ shard[o].weight # config.loadedWeight
        /\ shard[1 - o].state = "loop"
        /\ shard[1 - o].weight = config.loadedWeight
        /\ lossQ[1 - o] = <<>>
        /\ shard[1 - o].traceSaveFuture = "none"

\* Shard s makes a pass of its control loop for an update-loss command that
\* names a trace of its weight map.
OwnedUpdate(s) ==
    /\ LoopPass(s)
    /\ Head(cmdQ[s]) = "update-loss"
    /\ Head(lossQ[s]).executionTraceId \in shard[s].traceIds

\* |old - new| / (old + 1e-6) > threshold, with the threshold in percent and
\* both sides multiplied by 100 * 10^6.
RatioAboveThreshold(old, new) ==
    (IF old > new THEN old - new ELSE new - old) * 100 * 1000000
        > config.training_trace_selection_min_loss_ratio_difference_for_save
            * (old * 1000000 + 1)

\* C21: processing update-loss for an owned trace replaces the weight in
\* memory by the new loss if and only if |old - new| / (old + 1e-6) is
\* strictly greater than the configured threshold; otherwise the weight stays
\* as it was and no write-back is scheduled.
C21_ThresholdedUpdate ==
    [][\A s \in Shards :
            OwnedUpdate(s) =>
                IF RatioAboveThreshold(shard[s].weight, Head(lossQ[s]).sampleRewardLoss)
                THEN shard'[s].weight = Head(lossQ[s]).sampleRewardLoss
                ELSE /\ shard'[s].weight = shard[s].weight
                     /\ shard'[s].savesInFlight = shard[s].savesInFlight
                     /\ shard'[s].traceSaveFuture = shard[s].traceSaveFuture]_vars

\* The shard has replaced the weight it loaded by a loss it was sent and has
\* no command left to process.
C21_Witness ==
    /\ pc = "weights"
    /\ shard[0].weight # config.loadedWeight
    /\ shard[0].weight \in LossesSent
    /\ cmdQ[0] = <<>>

\* C22: a shard has at most one write-back of its trace's weight file in
\* flight, and an update-loss that changes the weight while the previous
\* write-back has not finished schedules no new one.
C22_OneWriteBackInFlight ==
    /\ [](\A s \in Shards : shard[s].savesInFlight <= 1)
    /\ [][\A s \in Shards :
            (OwnedUpdate(s) /\ shard[s].savesInFlight > 0) =>
                /\ shard'[s].savesInFlight = shard[s].savesInFlight
                /\ shard'[s].traceSaveFuture = shard[s].traceSaveFuture]_vars

\* The weight was changed while a write-back was in flight, which still is.
C22_Witness ==
    /\ pc = "weights"
    /\ shard[0].unsaved
    /\ shard[0].savesInFlight = 1
    /\ shard[0].traceSaveFuture = "running"

\* The pool workers that have been called (none outside the runs of the
\* sample cache on its own).
CalledWorkers == {w \in DOMAIN cache.worker : cache.worker[w].pc # "idle"}

\* C23: once a write of the cache file of a trace has been completed, every
\* lookup of that trace returns the written content, also while other
\* workers regenerate and rewrite the same file.
C23_ReadsSeeWrittenContent ==
    \A w \in CalledWorkers :
        (cache.worker[w].pc = "returned" /\ cache.worker[w].readOfWritten) =>
            cache.worker[w].outcome \in {"hit", "miss"}

\* C24: a genuine miss regenerates the whole session and writes a cache file
\* for every selectable trace, so that a lookup of any trace of the session
\* that begins after such a request has returned is a cache hit and
\* regenerates nothing.
C24_SiblingsHitAfterRegeneration ==
    \A w \in CalledWorkers :
        cache.worker[w].afterRegeneration =>
            cache.worker[w].pc = "returned" /\ cache.worker[w].outcome = "hit"

\* C25: a cache file write is attempted at most maxAttempts times, and when
\* all attempts of a write of the session have failed the request raises and
\* the session is not reported as cached.
C25_FailedWriteFailsRequest ==
    \A w \in CalledWorkers :
        /\ cache.worker[w].attempt <= maxAttempts
        /\ (cache.worker[w].pc = "returned" /\ cache.worker[w].gaveUp) =>
                cache.worker[w].outcome = "error" /\ ~cache.worker[w].sessionCached

\* C26: in every batch draw each of the batch_size chosen trace ids is an id
\* of the weight-data list and a key of the id map, and the weights the
\* probabilities are computed from are the stored weights clamped to
\* [minimum weight, maximum weight] (plus the bias offsets outside the cache
\* full state), whatever update-loss has stored.
C26_DrawnFromClampedWeights ==
    draw.done =>
        /\ Len(draw.clamped) = Len(draw.weights)
        /\ \A i \in DOMAIN draw.clamped :
                /\ draw.clamped[i] >= config.training_trace_selection_minimum_weight
                /\ draw.clamped[i] <= config.training_trace_selection_maximum_weight
                /\ draw.clamped[i] = draw.weights[i]
                        \/ draw.weights[i] < config.training_trace_selection_minimum_weight
                        \/ draw.weights[i] > config.training_trace_selection_maximum_weight
        /\ ~draw.raised =>
                /\ Len(draw.chosen) = config.batch_size
                /\ \A k \in DOMAIN draw.chosen :
                        /\ \E i \in DOMAIN draw.traceIds : draw.traceIds[i] = draw.chosen[k]
                        /\ draw.chosen[k] \in IdMapKeys(draw)
                /\ \A i \in DOMAIN draw.traceWeights :
                        draw.traceWeights[i] =
                            draw.clamped[i] + (IF draw.cacheFullState
                                               THEN 0
                                               ELSE draw.bias[IF Len(draw.bias) = 1 THEN 1 ELSE i])

\* A draw of two ids from a list of three traces whose stored weights lie
\* below, inside and above the range.
C26_Witness ==
    /\ pc = "draw"
    /\ draw.done
    /\ ~draw.raised
    /\ draw.weights = <<0, 10, 20>>
    /\ draw.clamped = <<5, 10, 15>>
    /\ draw.chosen = <<2, 0>>

\* C27: outside the cache full state the bias added to the clamped weights
\* has exactly one offset per trace, ascending with the position and bounded
\* by the configured one-side bias, and the draw proceeds, for every number
\* of traces and every bias.
C27_BiasVectorFitsTheTraces ==
    (draw.done /\ ~draw.cacheFullState) =>
        /\ Len(draw.bias) = Len(draw.weights)
        /\ \A i, j \in DOMAIN draw.bias : i < j => draw.bias[i] < draw.bias[j]
        /\ \A i \in DOMAIN draw.bias :
                draw.bias[i] <= config.training_trace_selection_cache_not_full_state_one_side_bias
        /\ ~draw.raised

\* C28: assembling N samples of one row each gives, for every fixed-shape
\* field, the N rows in sample order, and for every variable-length field
\* (current, next and decaying-future alike) the flattened concatenation of
\* the segments with an offsets array of length N that starts at 0 and grows
\* by the length of each sample's segment.
C28_AssemblyKeepsRowsAndOffsets ==
    assembly.done =>
        LET samples == assembly.samples
            batch == assembly.batch
            N == Len(samples)
        IN  /\ \A key \in {"processedImages", "actionXs"} :
                    /\ Len(batch[key]) = N
                    /\ \A i \in 1..N : batch[key][i] = samples[i][key][1]
            /\ Len(batch["traceIds"]) = N
            /\ \A i \in 1..N : batch["traceIds"][i] = samples[i]["traceIds"][1]
            /\ \A k \in DOMAIN SymbolKeys :
                    LET key == SymbolKeys[k]
                        offsets == batch[OffsetsKey(key)]
                    IN  /\ Len(offsets) = N
                        /\ offsets[1] = 0
                        /\ \A i \in 1..(N - 1) :
                                offsets[i + 1] - offsets[i] = Len(samples[i][key][1])
                        /\ Len(batch[key]) = offsets[N] + Len(samples[N][key][1])
                        /\ \A i \in 1..N : \A j \in 1..Len(samples[i][key][1]) :
                                batch[key][offsets[i] + j] = samples[i][key][1][j]

\* Three samples whose segments have different lengths, an empty one among
\* them, have been assembled.
C28_Witness ==
    /\ pc = "assemble"
    /\ assembly.done
    /\ Len(assembly.samples) = 3
    /\ assembly.batch["symbolOffsets"] = <<0, 2, 2>>
    /\ assembly.batch["nextSymbolOffsets"] = <<0, 1, 1>>
    /\ assembly.batch["decayingFutureSymbolOffsets"] = <<0, 1, 3>>
    /\ assembly.batch["symbolIndexes"] = <<11, 12, 31>>

\* C29: the iteration counter grows by one per successful learning iteration
\* and after k completed iterations every loss-category sequence holds
\* exactly k entries.
C29_OneLossEntryPerIteration ==
    trainingStep.totalLosses = trainingStep.numberOfIterationsCompleted

\* runTraining has returned after a training step that raised nothing.
EndedNormally ==
    /\ pc = "returned"
    /\ returnData.hasTrainingStepId
    /\ ~returnData.hasException

\* C30: each batch hand-off file is read and deleted by exactly one request
\* of the coordinator: none is read twice, none is opened after it was
\* deleted, a file is deleted exactly when it has been read, and after a
\* training step that ended normally every hand-off file has been read once
\* and deleted.
C30_HandOffFilesConsumedOnce ==
    \A s \in Shards : \A k \in DOMAIN handoff[s].files :
        LET file == handoff[s].files[k]
        IN  /\ file.reads <= 1
            /\ ~file.missed
            /\ (file.state = "deleted") = (file.reads = 1)
            /\ EndedNormally => file.state = "deleted"

\* A training step ended normally after both shards had handed over batches,
\* one of them two.
C30_Witness ==
    /\ EndedNormally
    /\ returnData.success
    /\ 1 \in Shards
    /\ Len(handoff[0].files) >= 2
    /\ Len(handoff[1].files) >= 1
    /\ \A s \in Shards : \A k \in DOMAIN handoff[s].files :
            handoff[s].files[k].state = "deleted" /\ handoff[s].files[k].reads = 1

\* C31: whenever runTraining returns after createSubproccesses has started
\* shard processes, every shard it started has been sent quit or has been
\* terminated: none is left running and waiting on its command queue.
C31_NoShardLeftWaiting ==
    pc = "returned" =>
        \A s \in Shards : shard[s].state = "notstarted" \/ ToldToQuit(s)

\* C32: if a completed testing step with a selectable trace exists, every
\* shard whose initialization ran to its end answered ready, for every number
\* of shards, also with fewer eligible testing steps than shards.
C32_EveryShardReady ==
    (config.completedTestingSteps >= 1 /\ config.tracesPerSession >= 2) =>
        \A s \in Shards : shard[s].handshakes = 1 => HandshakeMessage(s) = "ready"

\* The futures of batchFutures, as a set.
Outstanding == {batchFutures[i] : i \in 1 .. Len(batchFutures)}

\* The position of the oldest finished future of batchFutures, 0 when none
\* is finished.
OldestFinished ==
    IF \E i \in 1 .. Len(batchFutures) : IsDone(batchFutures[i])
    THEN CHOOSE i \in 1 .. Len(batchFutures) :
            IsDone(batchFutures[i]) /\ \A j \in 1 .. (i - 1) : ~IsDone(batchFutures[j])
    ELSE 0

\* This step is the choice of a future by fetchBatchesForIteration.
FetchChoice == pc = "fetch" /\ batchFutures' # batchFutures

\* C33: a fetch takes the oldest future that is finished when it looks, and
\* only when none is finished then does it block, on the oldest outstanding
\* future; a fetch whose look found a finished future does not block, and
\* batches may be consumed out of submission order.
C33_FetchTakesOldestFinished ==
    /\ [](pc = "await" => \A i \in 1 .. Len(batchFutures) : popped < batchFutures[i])
    /\ [][FetchChoice =>
            IF OldestFinished > 0
            THEN /\ pc' # "await"
                 /\ popped' = NoFuture
                 /\ batchFutures[OldestFinished] \notin Outstanding'
                 /\ \A i \in 1 .. Len(batchFutures) :
                        i # OldestFinished => batchFutures[i] \in Outstanding'
            ELSE /\ pc' = "await"
                 /\ popped' = batchFutures[1]
                 /\ batchFutures' = Tail(batchFutures)]_vars

\* A batch has been consumed while an older request is still outstanding and
\* unfinished.
C33_Witness ==
    /\ pc = "learn"
    /\ batchFutures # <<>>
    /\ ~IsDone(batchFutures[1])
    /\ \E id \in FutureIds :
            /\ id > batchFutures[1]
            /\ id \notin Outstanding
            /\ futState[id] = "done"

\* C33 as stated: a fetch never blocks while some outstanding future is
\* finished.
C33_NeverBlocksBesideAFinishedFuture ==
    (pc = "await" /\ ~IsDone(popped)) =>
        \A i \in 1 .. Len(batchFutures) : ~IsDone(batchFutures[i])

\* C34: whenever at least N batch jobs of the shard have completed (N the
\* moving-average length), exactly N hit rates enter the average of a resize
\* decision.
C34_AverageOverLatestCompletions ==
    [][\A s \in Shards :
            (/\ LoopPass(s)
             /\ Resized(s)
             /\ shard[s].jobsDone >= config.training_cache_full_state_moving_average_length)
                => Len(RatesAtResize(s)) = config.training_cache_full_state_moving_average_length]_vars

\* C35: a shard in its control loop whose next command is not quit handles
\* it without waiting for a batch job in flight: no step of the pass waits,
\* whatever the state of its jobs.
C35_LoopNeverWaitsForJobs ==
    \A s \in Shards :
        (shard[s].state = "loop" /\ cmdQ[s] # <<>> /\ Head(cmdQ[s]) # "quit")
            => ~PassWaits(shard[s], Head(cmdQ[s]))

\* A shard is about to resize in the pass for its next command while a job
\* of the averaging window is still running.
C35_Witness ==
    \E s \in Shards :
        /\ shard[s].state = "loop"
        /\ cmdQ[s] # <<>>
        /\ Head(cmdQ[s]) \in {"batch", "starved", "full", "update-loss"}
        /\ HandleMessage(shard[s], Head(cmdQ[s])).needToResetPool
        /\ ~shard[s].lastProcessPool
        /\ \E i \in 1 .. Len(RecentJobs(shard[s])) : ~RecentJobs(shard[s])[i].done

\* C36: once every job handed to a shard's old pool has completed, the old
\* pool is eventually terminated and its slot freed: lastProcessPool becomes
\* None or the shard has ended.
C36_OldPoolEventuallyRetired ==
    \A s \in ShardIds :
        (s \in Shards /\ shard[s].state = "loop"
            /\ shard[s].lastProcessPool /\ LastPoolDrained(shard[s]))
        ~> (s \in Shards
                /\ (~shard[s].lastProcessPool \/ shard[s].state \in {"exited", "killed"}))

\* The handshake tokens of the result channels.
HandshakeTokens == {"ready", "error"}

\* C37: on each shard's result channel the handshake token is the first
\* message; the coordinator has consumed the token of every shard before it
\* sends a batch command to any shard; no batch request receives a token in
\* place of a batch file name, and the handshake wait takes nothing but a
\* token.
C37_HandshakeBeforeBatches ==
    /\ [](\A s \in Shards :
            /\ \A i \in 2 .. Len(resQ[s]) : resQ[s][i] \notin HandshakeTokens
            /\ (resQ[s] # <<>> /\ Head(resQ[s]) \in HandshakeTokens) =>
                    /\ shard[s].handshakes = 1
                    /\ \A id \in FutureIds : futState[id] = "none"
                    /\ \A t \in Shards : Count(cmdQ[t], "batch") = 0)
    /\ [](\A id \in FutureIds : futState[id] # "failed")
    /\ [][(pc = "handshake" /\ resQ' # resQ /\ Len(resQ'[shardIndex]) < Len(resQ[shardIndex]))
            => Head(resQ[shardIndex]) \in HandshakeTokens]_vars

\* Both shards have answered ready, the coordinator has taken both tokens and
\* a batch request has received the file name of a batch.
C37_Witness ==
    /\ 1 \in Shards
    /\ \A s \in Shards : shard[s].handshakes = 1 /\ shard[s].state = "loop"
    /\ pc \in {"fetch", "await", "learn"}
    /\ \E id \in FutureIds : futState[id] = "done"
    /\ \E id \in FutureIds : futState[id] = "sent"

\* The batches fetchBatchesForIteration has taken so far.
BatchesConsumed ==
    trainingStep.numberOfIterationsCompleted * config.batches_per_iteration + batchIndex

\* C38: whenever fetchBatchesForIteration is about to take a batch the list
\* of outstanding futures is not empty, and the coordinator has consumed
\* fewer batches than it has submitted.
C38_FutureListNeverEmptyAtFetch ==
    pc = "fetch" =>
        /\ batchFutures # <<>>
        /\ BatchesConsumed < batchesPrepared
        /\ config.training_precompute_batches_count >= 1

\* The last batch of the last iteration is about to be taken, in a run of
\* two batches per iteration without surplus.
C38_Witness ==
    /\ pc = "fetch"
    /\ config.batches_per_iteration = 2
    /\ config.training_surplus_batches = 0
    /\ trainingStep.numberOfIterationsCompleted = config.iterations_per_training_step - 1
    /\ batchIndex = config.batches_per_iteration - 1
    /\ Len(batchFutures) = 1

\* The shard has left its process after quit (lines 828-832 have run).
ShardHasExited(s) == shard[s].state = "exited" /\ shard[s].handshakes = 1 /\ shard[s].traceIds # {}

\* C39: once a shard has exited after quit, when no update-loss arrives any
\* more and every background write-back has completed, the weight file of its
\* trace holds the weight the shard had in memory.
C39_ExitPersistsCurrentWeight ==
    \A s \in Shards : ShardHasExited(s) => shard[s].savedWeight = shard[s].weight

\* The timeout monitor has found the task unfinished after the timeout and is
\* about to stop it (line 193).
TimeoutMonitorStops == pc = "task" /\ task.thread["timeout"] = "terminate"

\* No process of the task's tree is running.
TreeStopped == task.process # "running" /\ task.child # "running"

\* C40: when the task has not finished within the timeout, the timeout monitor
\* stops the process, by a terminate and then a hard kill of the whole process
\* tree if it still runs; alive becomes False and never True again, and
\* waitForProcessResult returns the parsed result when the output holds both
\* result markers and None otherwise.
C40_TimeoutStopsTheTask ==
    /\ [][task'.alive => task.alive]_vars
    /\ TimeoutMonitorStops ~> (~task.alive /\ task.waiter = "returned")
    /\ [][(task.waiter = "waiting" /\ task'.waiter = "returned") =>
            task'.result = IF Contains(task.output, "resultStart")
                                /\ Contains(task.output, "resultFinish")
                           THEN "parsed" ELSE "None"]_vars
    /\ TimeoutMonitorStops ~> TreeStopped

====
